---- MODULE Spec2Model ----
(***************************************************************************)
(* Attendance backend: the attendance state machine of the mobile punch    *)
(* routes (get-or-create, manual PUT punch, face-attendance punch) and the *)
(* logical-date computation they share.                                    *)
(*                                                                         *)
(* Instants are epoch seconds (the code's epoch milliseconds, cut to the   *)
(* second: no operation modelled here reads the milliseconds).  A date     *)
(* string "YYYY-MM-DD" is the record [year, month, day]; the DATE column   *)
(* of the attendance table is the day number ParseDate gives it.           *)
(***************************************************************************)
EXTENDS Integers, Sequences, FiniteSets, TLC

VARIABLES
    attendance,   \* the attendance table: a sequence of rows, row i has attendance_id i
    clock,        \* index into Timeline of the present instant
    req,          \* per request slot: the handler's locals and its position
    started,      \* number of requests received so far
    last,         \* the request answered last, with its response
    env,          \* process.env.NIGHT_SHIFT_ROLLOVER_HOUR at load time
    probe,        \* formatDate under test: its argument and its results
    db,           \* the tables of roles, permissions and city grants
    cacheVersion, \* permissionMiddleware: let cacheVersion
    permissionCache, \* permissionMiddleware: const permissionCache
    lookup,       \* per slot: a fetchUserPermissions call and its position
    writer,       \* the RBAC write request being handled and its position
    history,      \* commits made and commits an invalidation has followed
    http,         \* a request on its way through the middleware chain
    call,         \* a report filter builder under test: arguments and result
    face,         \* a face-attendance request: its locals and its position
    rbac,         \* the roles table and the role request answered last
    users,        \* the committed rows of one user in the user tables
    tx,           \* PUT /rbac/users/:userId: its transaction and its position
    cityCache,    \* userCityAccess: cityAccessVersion, cityAccessCache, lookups
    schema,       \* rbacSetup: schemaPromise, the setup runs, the schema
    csv           \* buildCsvDocument under test: arguments, document, reading

attendanceVars == <<attendance, clock, req, started, last, env, probe>>

accessVars == <<db, cacheVersion, permissionCache, lookup, writer, history, http, call>>

extraVars == <<face, rbac, users, tx, cityCache, schema, csv>>

vars == <<attendanceVars, accessVars, extraVars>>

-----------------------------------------------------------------------------
(* Calendar arithmetic *)

\* JS null / undefined / SQL NULL for integer-valued fields (ids, timestamps).
Null == 0

NoDate == [year |-> 0, month |-> 0, day |-> 0]

\* Date.UTC(year, month - 1, day) in days: the proleptic Gregorian day number.
DaysFromCivil(y, m, d) ==
    LET yy  == IF m <= 2 THEN y - 1 ELSE y
        era == yy \div 400
        yoe == yy - era * 400
        mp  == IF m > 2 THEN m - 3 ELSE m + 9
        doy == (153 * mp + 2) \div 5 + d - 1
        doe == yoe * 365 + yoe \div 4 - yoe \div 100 + doy
    IN  era * 146097 + doe - 719468

\* getUTCFullYear / getUTCMonth + 1 / getUTCDate of a day number, and the
\* year, month and day parts Intl.DateTimeFormat gives for a local day
\* number.  The computation is staged: era and day of era, year of era, day
\* of year, month (counted from March), then the civil year, month and day.
CivilOfMonth(y0, doy, mp) ==
    [year  |-> y0 + (IF mp < 10 THEN 0 ELSE 1),
     month |-> IF mp < 10 THEN mp + 3 ELSE mp - 9,
     day   |-> doy - (153 * mp + 2) \div 5 + 1]

CivilOfDayOfYear(y0, doy) == CivilOfMonth(y0, doy, (5 * doy + 2) \div 153)

CivilOfYearOfEra(era, doe, yoe) ==
    CivilOfDayOfYear(yoe + era * 400, doe - (365 * yoe + yoe \div 4 - yoe \div 100))

CivilOfEra(era, doe) ==
    CivilOfYearOfEra(era, doe,
        (doe - doe \div 1460 + doe \div 36524 - doe \div 146096) \div 365)

CivilFromDays(z) == CivilOfEra((z + 719468) \div 146097, (z + 719468) % 146097)

\* $n::date : the DATE value of a "YYYY-MM-DD" string.
ParseDate(s) == DaysFromCivil(s.year, s.month, s.day)

-----------------------------------------------------------------------------
(* Configuration *)

\* DEFAULT_ATTENDANCE_TIMEZONE Asia/Kolkata: UTC+05:30 all year, in seconds.
TzOffsetSeconds == 19800

DefaultRolloverHour == 4

EnvUnset == [kind |-> "unset", value |-> 0]

\* Number(process.env.NIGHT_SHIFT_ROLLOVER_HOUR ?? 4) || 4 : an unset value,
\* a non-numeric text (NaN) and 0 all give 4.
parsedRolloverHour(e) ==
    IF e.kind = "number" /\ e.value # 0 THEN e.value ELSE DefaultRolloverHour

NIGHT_SHIFT_ROLLOVER_HOUR(e) ==
    LET p == parsedRolloverHour(e)
    IN  IF p >= 0 /\ p <= 23 THEN p ELSE DefaultRolloverHour

-----------------------------------------------------------------------------
(* Logical date *)

\* An instant that `new Date(x)` could not build (Invalid Date).
InvalidInstant == -1

\* The parts of a local time given in seconds: the civil date of its day
\* and the hour (00..23, hour12: false) of its second of the day.
PartsOfLocal(c, secondOfDay) ==
    [year |-> c.year, month |-> c.month, day |-> c.day, hour |-> secondOfDay \div 3600]

\* attendanceDateFormatter.formatToParts(date): year, month, day and hour of
\* the instant in the attendance timezone.
getAttendanceDateParts(t) ==
    PartsOfLocal(CivilFromDays((t + TzOffsetSeconds) \div 86400),
                 (t + TzOffsetSeconds) % 86400)

\* The rollover with `<=` in place of `<`: the rollover hour itself would
\* still belong to the previous day.
applyRolloverInclusive(p, rolloverHour) ==
    IF rolloverHour >= 0 /\ rolloverHour <= 23 /\ p.hour <= rolloverHour
    THEN CivilFromDays(DaysFromCivil(p.year, p.month, p.day) - 1)
    ELSE [year |-> p.year, month |-> p.month, day |-> p.day]

\* formatDate from the parts on: one day back (Date.UTC, setUTCDate - 1) when
\* the hour is before the rollover hour; the string is the date's record.
applyRollover(p, rolloverHour) ==
    IF rolloverHour >= 0 /\ rolloverHour <= 23 /\ p.hour < rolloverHour
    THEN CivilFromDays(DaysFromCivil(p.year, p.month, p.day) - 1)
    ELSE [year |-> p.year, month |-> p.month, day |-> p.day]

\* formatDate(date, {rolloverHour}): `now` stands for the `new Date()` an
\* invalid argument falls back to.
formatDate(t, now, rolloverHour) ==
    applyRollover(getAttendanceDateParts(IF t = InvalidInstant THEN now ELSE t),
                  rolloverHour)

-----------------------------------------------------------------------------
(* Request date fields *)

DATE_INPUT_KEYS == <<"date", "attendance_date", "punch_date">>

TIMESTAMP_INPUT_KEYS == <<"timestamp", "client_timestamp", "clientTime", "captured_at">>

\* A request field is absent, or a value of one of these kinds:
\*   iso      a string matching /^\d{4}-\d{2}-\d{2}$/          (date)
\*   datetime a string `new Date(s)` parses                     (instant)
\*   numstr   a string only Number(s) parses                    (instant)
\*   number   a JSON number                                     (instant)
\*   blank    a string of spaces;  garbage: any other string
Absent == [kind |-> "absent", date |-> NoDate, instant |-> 0]

IsoValue(y, m, d) ==
    [kind |-> "iso", date |-> [year |-> y, month |-> m, day |-> d], instant |-> 0]

InstantValue(k, t) == [kind |-> k, date |-> NoDate, instant |-> t]

Garbage == [kind |-> "garbage", date |-> NoDate, instant |-> 0]

Blank == [kind |-> "blank", date |-> NoDate, instant |-> 0]

\* normalizeDateInput(value): a date string, or NoDate for null.
normalizeDateInput(value, now, rolloverHour) ==
    CASE value.kind = "iso" -> value.date
      [] value.kind \in {"datetime", "numstr", "number"} ->
            formatDate(value.instant, now, rolloverHour)
      [] OTHER -> NoDate

\* A source (req.body, req.query) maps every key to a value; NoSource is a
\* source that is not an object.
AllKeys == {DATE_INPUT_KEYS[i] : i \in 1..Len(DATE_INPUT_KEYS)}
             \cup {TIMESTAMP_INPUT_KEYS[i] : i \in 1..Len(TIMESTAMP_INPUT_KEYS)}

EmptySource == [k \in AllKeys |-> Absent]

NoSource == [k \in {} |-> Absent]

With(source, key, value) == [source EXCEPT ![key] = value]

\* One pass of resolveAttendanceDate over every source and every key of
\* `keys`, sources outermost: the first value that normalises, or NoDate.
FirstNormalized(sources, keys, now, rolloverHour) ==
    LET n    == Len(keys)
        at(i) == LET src == sources[((i - 1) \div n) + 1]
                     key == keys[((i - 1) % n) + 1]
                 IN  IF DOMAIN src = {} THEN NoDate
                     ELSE normalizeDateInput(src[key], now, rolloverHour)
        hits == {i \in 1..(Len(sources) * n) : at(i) # NoDate}
    IN  IF hits = {} THEN NoDate
        ELSE at(CHOOSE i \in hits : \A j \in hits : i <= j)

\* The date resolveAttendanceDate returns, given what its two passes found
\* and formatDate() of the present instant.
FirstOf(byDate, byTimestamp, today) ==
    IF byDate # NoDate THEN byDate
    ELSE IF byTimestamp # NoDate THEN byTimestamp
    ELSE today

\* resolveAttendanceDate(...sources)
resolveAttendanceDate(sources, now, rolloverHour) ==
    FirstOf(FirstNormalized(sources, DATE_INPUT_KEYS, now, rolloverHour),
            FirstNormalized(sources, TIMESTAMP_INPUT_KEYS, now, rolloverHour),
            formatDate(now, now, rolloverHour))

-----------------------------------------------------------------------------
(* Bounds and inputs *)

\* Requests received in one run.
MaxRequests == 3

\* Requests in flight at the same time.
NumSlots == 2

Slots == 1..NumSlots

\* The employee table: every employee has a ward and a designation, so the
\* inner joins of ATTENDANCE_SELECT_JOINS keep every attendance row.
EmployeeIds == {1, 2}

\* SELECT ward_id FROM employee WHERE emp_id = $1
employeeWard(emp_id) == 10 + emp_id

\* The users table, and the userId values a request body carries: none, a
\* user of the table, an id of no user.
UserIds == {1}

UserIdInputs == {Null, 1, 7}

\* The instant of local time y-m-d h:mi:s in the attendance timezone.
LocalInstant(y, m, d, h, mi, s) ==
    DaysFromCivil(y, m, d) * 86400 + h * 3600 + mi * 60 + s - TzOffsetSeconds

\* The instants at which requests are handled: before the rollover hour of
\* 15 June, the last second before the rollover of 16 June, the rollover
\* hour itself.
Timeline ==
    << LocalInstant(2023, 6, 15, 3, 45, 0),
       LocalInstant(2023, 6, 16, 3, 59, 59),
       LocalInstant(2023, 6, 16, 4, 0, 0) >>

Now == Timeline[clock]

RolloverHour == NIGHT_SHIFT_ROLLOVER_HOUR(env)

\* The date fields of the requests: none; a body timestamp with a query
\* date; an unusable body date with a numeric capture time and no query.
\* The query date, 14 June, is the logical date of the first instant only.
DatePayloads ==
    { <<EmptySource, EmptySource>>,
      <<With(EmptySource, "timestamp",
             InstantValue("datetime", LocalInstant(2023, 6, 15, 9, 0, 0))),
        With(EmptySource, "punch_date", IsoValue(2023, 6, 14))>>,
      <<With(With(EmptySource, "date", Garbage), "captured_at",
             InstantValue("number", LocalInstant(2023, 6, 15, 2, 0, 0))),
        NoSource>> }

\* punch_type as sent to PUT /: the two punch types and a string that is neither.
PutPunchTypes == {"IN", "OUT", "out"}

\* punch_type as sent to POST /face-attendance.
FacePunchTypes == {"IN", "OUT", "out", ""}

\* String.prototype.toUpperCase on the punch_type strings sent.
toUpperCase(s) == CASE s = "out" -> "OUT" [] s = "in" -> "IN" [] OTHER -> s

-----------------------------------------------------------------------------
(* The attendance table *)

RowIds == 1..Len(attendance)

\* INSERT INTO attendance (emp_id, date, ward_id): the punch columns default to NULL.
NewRow(emp_id, date, ward_id) ==
    [emp_id |-> emp_id, date |-> date, ward_id |-> ward_id,
     punch_in_time |-> Null, punch_out_time |-> Null,
     punch_in_image |-> Null, punch_out_image |-> Null,
     punched_in_by |-> Null, punched_out_by |-> Null]

\* ORDER BY a.date DESC, a.attendance_id DESC LIMIT 1 over the rows `ids`:
\* the attendance_id of the first row, or Null when there is none.
fetchAttendanceRecord(ids) ==
    IF ids = {} THEN Null
    ELSE CHOOSE i \in ids : \A j \in ids :
            \/ attendance[i].date > attendance[j].date
            \/ attendance[i].date = attendance[j].date /\ i >= j

\* a.emp_id = $1 AND a.date = $2::date
TargetRows(emp_id, date) ==
    {i \in RowIds : attendance[i].emp_id = emp_id /\ attendance[i].date = ParseDate(date)}

\* fetchRecentOpenAttendance with the window's lower edge two days back.
fetchRecentOpenAttendanceWide(emp_id, date) ==
    IF emp_id = Null \/ date = NoDate THEN Null
    ELSE fetchAttendanceRecord(
            {i \in RowIds : /\ attendance[i].emp_id = emp_id
                            /\ attendance[i].date >= ParseDate(date) - 2
                            /\ attendance[i].date <= ParseDate(date)
                            /\ attendance[i].punch_in_time # Null
                            /\ attendance[i].punch_out_time = Null})

\* fetchRecentOpenAttendance(empId, date)
fetchRecentOpenAttendance(emp_id, date) ==
    IF emp_id = Null \/ date = NoDate THEN Null
    ELSE fetchAttendanceRecord(
            {i \in RowIds : /\ attendance[i].emp_id = emp_id
                            /\ attendance[i].date >= ParseDate(date) - 1
                            /\ attendance[i].date <= ParseDate(date)
                            /\ attendance[i].punch_in_time # Null
                            /\ attendance[i].punch_out_time = Null})

\* resolvePunchActor(rawUserId)
resolvePunchActor(userId) ==
    IF userId = Null THEN Null
    ELSE IF userId \in UserIds THEN userId ELSE Null

NoError == [status |-> 0, error |-> ""]

\* validatePunchAttempt without its check of a repeated punch in.
validatePunchAttemptLax(id, inSet, outSet, punchType) ==
    CASE id = Null ->
            IF punchType = "OUT"
            THEN [status |-> 400, error |-> "Must punch in first"]
            ELSE [status |-> 404, error |-> "Attendance record not found"]
      [] id # Null /\ punchType = "OUT" /\ outSet ->
            [status |-> 400, error |-> "Already punched out today"]
      [] id # Null /\ punchType = "OUT" /\ ~outSet /\ ~inSet ->
            [status |-> 400, error |-> "Must punch in first"]
      [] OTHER -> NoError

\* validatePunchAttempt(attendance, punchType): `id` is Null for no record,
\* `inSet` and `outSet` say whether the record's punch times are set.
validatePunchAttempt(id, inSet, outSet, punchType) ==
    CASE id = Null ->
            IF punchType = "OUT"
            THEN [status |-> 400, error |-> "Must punch in first"]
            ELSE [status |-> 404, error |-> "Attendance record not found"]
      [] id # Null /\ punchType = "IN" /\ inSet ->
            [status |-> 400, error |-> "Already punched in today"]
      [] id # Null /\ punchType = "OUT" /\ outSet ->
            [status |-> 400, error |-> "Already punched out today"]
      [] id # Null /\ punchType = "OUT" /\ ~outSet /\ ~inSet ->
            [status |-> 400, error |-> "Must punch in first"]
      [] OTHER -> NoError

-----------------------------------------------------------------------------
(* Request handlers.  A handler is cut into steps at the queries it awaits  *)
(* on the attendance table; what it computes between two queries belongs   *)
(* to the step of the first one.                                           *)

IdleReq ==
    [pc |-> "idle", route |-> "", received |-> 0,
     punch_type |-> "", emp_id |-> Null, date |-> NoDate,
     attendance_id |-> Null, inSet |-> FALSE, outSet |-> FALSE,
     status |-> 0, error |-> ""]

\* A request is handled in the first slot that is free.
Free(p) == req[p].pc = "idle" /\ \A q \in Slots : q < p => req[q].pc # "idle"

NoResponse == [route |-> "", attendance_id |-> Null, status |-> 0, error |-> ""]

\* The handler of slot p moves on to r2; when r2 is a response, the slot is
\* free again and `last` keeps the response: its status, its error message
\* and, on success, the attendance_id of the record sent back or updated.
Step(p, r2) ==
    IF r2.pc = "done"
    THEN /\ req' = [req EXCEPT ![p] = IdleReq]
         /\ last' = [route |-> r2.route,
                      attendance_id |-> IF r2.status = 200 THEN r2.attendance_id ELSE Null,
                      status |-> r2.status, error |-> r2.error]
    ELSE /\ req' = [req EXCEPT ![p] = r2]
         /\ last' = last

\* res.status(status).json(...): the handler ends.
Respond(r, status, error) == [r EXCEPT !.pc = "done", !.status = status, !.error = error]

\* createIfMissing left at its default in face-attendance too.
createIfMissingAlways(r) == TRUE

\* createIfMissing as the callers pass it: POST / leaves the default (true),
\* face-attendance passes punchType !== PUNCH_TYPES.OUT.
createIfMissing(r) == r.route = "create" \/ r.punch_type # "OUT"

\* What the caller does with the record getOrCreateAttendanceRecord returns.
Returned(r, id, inSet, outSet) ==
    LET got == [r EXCEPT !.attendance_id = id, !.inSet = inSet, !.outSet = outSet]
        v   == validatePunchAttempt(id, inSet, outSet, r.punch_type)
    IN  IF r.route = "create" THEN Respond(got, 200, "")
        ELSE IF v.status # 0 THEN Respond(got, v.status, v.error)
        ELSE [got EXCEPT !.pc = "update"]

\* getOrCreateAttendanceRecord after its carry-forward block: return the
\* record found, return null, throw, or go on to the INSERT.
AfterLookup(r, id, inSet, outSet) ==
    IF id # Null THEN Returned(r, id, inSet, outSet)
    ELSE IF ~createIfMissing(r) /\ r.punch_type = "OUT" THEN Returned(r, Null, FALSE, FALSE)
    ELSE IF r.emp_id = Null THEN Respond(r, 500, "Employee ID is required")
    ELSE [r EXCEPT !.pc = "insert"]

\* INSERT without the ON CONFLICT clause and without the unique key.
insertAlways(emp_id, date, ward_id) ==
    Append(attendance, NewRow(emp_id, ParseDate(date), ward_id))

\* INSERT INTO attendance ... ON CONFLICT (emp_id, date) DO NOTHING: the table after it.
insertOnConflictDoNothing(emp_id, date, ward_id) ==
    IF TargetRows(emp_id, date) = {}
    THEN Append(attendance, NewRow(emp_id, ParseDate(date), ward_id))
    ELSE attendance

\* The UPDATE with the direction left out of account: the out columns.
updatePunchOutColumns(id, isPunchIn, image, actor) ==
    IF id \notin RowIds THEN attendance
    ELSE [attendance EXCEPT ![id].punch_out_time = Now,
                            ![id].punch_out_image = image,
                            ![id].punched_out_by = actor]

\* UPDATE attendance SET <in or out columns> WHERE attendance_id = $6: the table after it.
updatePunch(id, isPunchIn, image, actor) ==
    IF id \notin RowIds THEN attendance
    ELSE IF isPunchIn
    THEN [attendance EXCEPT ![id].punch_in_time = Now,
                            ![id].punch_in_image = image,
                            ![id].punched_in_by = actor]
    ELSE [attendance EXCEPT ![id].punch_out_time = Now,
                            ![id].punch_out_image = image,
                            ![id].punched_out_by = actor]

Receive(p, route, punch_type, emp_id, date) ==
    [IdleReq EXCEPT !.pc = "fetch", !.route = route, !.received = clock, !.punch_type = punch_type,
                    !.emp_id = emp_id, !.date = date]

\* POST / : resolve the date; getOrCreateAttendanceRecord follows.
PostStart(p) ==
    /\ Free(p) /\ started < MaxRequests
    /\ \E emp_id \in EmployeeIds \cup {Null}, payload \in DatePayloads :
          Step(p,
                    Receive(p, "create", "", emp_id,
                            resolveAttendanceDate(payload, Now, RolloverHour)))
    /\ started' = started + 1
    /\ UNCHANGED <<attendance, clock, env, probe, accessVars, extraVars>>

\* POST /face-attendance, single mode, up to the employee the face resolves
\* to: no image (400), no gallery match (401), no employee for the match
\* (404), or an employee and the normalised punch type.
FaceStart(p, types) ==
    /\ Free(p) /\ started < MaxRequests
    /\ \/ \E early \in {<<400, "Face image is required">>,
                        <<401, "No matching employee found">>,
                        <<404, "Employee not registered in system">>} :
              Step(p,
                        Respond([IdleReq EXCEPT !.route = "face", !.received = clock],
                                early[1], early[2]))
       \/ \E emp_id \in EmployeeIds, raw \in types, payload \in DatePayloads :
              Step(p,
                        Receive(p, "face",
                                IF toUpperCase(raw) = "OUT" THEN "OUT" ELSE "IN",
                                emp_id,
                                resolveAttendanceDate(payload, Now, RolloverHour)))
    /\ started' = started + 1
    /\ UNCHANGED <<attendance, clock, env, probe, accessVars, extraVars>>

\* getOrCreateAttendanceRecord: the fetch of the target date's row.
Fetch(p) ==
    LET r     == req[p]
        id    == fetchAttendanceRecord(TargetRows(r.emp_id, r.date))
        inSet == id # Null /\ attendance[id].punch_in_time # Null
        outSet == id # Null /\ attendance[id].punch_out_time # Null
        needsOpenCarryForward == r.punch_type = "OUT" /\ (id = Null \/ ~inSet)
    IN  /\ r.pc = "fetch"
        /\ Step(p,
                     IF needsOpenCarryForward
                     THEN [r EXCEPT !.pc = "carry", !.attendance_id = id,
                                    !.inSet = inSet, !.outSet = outSet]
                     ELSE AfterLookup(r, id, inSet, outSet))
        /\ UNCHANGED <<attendance, clock, started, env, probe, accessVars, extraVars>>

\* getOrCreateAttendanceRecord: the fetch of the recent open row.
Carry(p) ==
    LET r       == req[p]
        carried == fetchRecentOpenAttendance(r.emp_id, r.date)
    IN  /\ r.pc = "carry"
        /\ Step(p,
                     IF carried # Null THEN Returned(r, carried, TRUE, FALSE)
                     ELSE AfterLookup(r, r.attendance_id, r.inSet, r.outSet))
        /\ UNCHANGED <<attendance, clock, started, env, probe, accessVars, extraVars>>

\* getOrCreateAttendanceRecord: the INSERT, and the SELECT that reads the
\* row back when the INSERT returned none; the record built from it has no
\* punch times.
Insert(p) ==
    LET r == req[p]
    IN  /\ r.pc = "insert"
        /\ attendance' = insertOnConflictDoNothing(r.emp_id, r.date, employeeWard(r.emp_id))
        /\ LET base == {i \in 1..Len(attendance') :
                          /\ attendance'[i].emp_id = r.emp_id
                          /\ attendance'[i].date = ParseDate(r.date)}
           IN  Step(p,
                         Returned(r, CHOOSE i \in base : TRUE, FALSE, FALSE))
        /\ UNCHANGED <<clock, started, env, probe, accessVars, extraVars>>

\* The checks PUT / makes on the row it selected.
putValidation(row, punch_type) ==
    CASE punch_type = "IN" /\ row.punch_in_time # Null ->
            [status |-> 400, error |-> "Already punched in today"]
      [] punch_type = "OUT" /\ row.punch_out_time # Null ->
            [status |-> 400, error |-> "Already punched out today"]
      [] punch_type = "OUT" /\ row.punch_out_time = Null /\ row.punch_in_time = Null ->
            [status |-> 400, error |-> "Must punch in first"]
      [] OTHER -> NoError

\* PUT / : the required fields.
PutStart(p, types) ==
    /\ Free(p) /\ started < MaxRequests
    /\ \E id \in 1..(Len(attendance) + 1), punch_type \in types, complete \in BOOLEAN :
          LET r == [IdleReq EXCEPT !.route = "put", !.received = clock,
                                   !.punch_type = punch_type,
                                   !.attendance_id = id]
          IN  Step(p, IF ~complete THEN Respond(r, 400, "Missing required fields")
                      ELSE [r EXCEPT !.pc = "select"])
    /\ started' = started + 1
    /\ UNCHANGED <<attendance, clock, env, probe, accessVars, extraVars>>

\* PUT / : the SELECT by attendance_id and the state checks on its row.
PutSelect(p) ==
    LET r == req[p]
    IN  /\ r.pc = "select"
        /\ Step(p, IF r.attendance_id \notin RowIds
                   THEN Respond(r, 404, "Attendance record not found")
                   ELSE LET row == attendance[r.attendance_id]
                            v   == putValidation(row, r.punch_type)
                            got == [r EXCEPT !.emp_id = row.emp_id,
                                             !.inSet = row.punch_in_time # Null,
                                             !.outSet = row.punch_out_time # Null]
                        IN  IF v.status # 0 THEN Respond(got, v.status, v.error)
                            ELSE [got EXCEPT !.pc = "update"])
        /\ UNCHANGED <<attendance, clock, started, env, probe, accessVars, extraVars>>

\* processPunch: the upload, the face match when required, the UPDATE.
Update(p) ==
    LET r == req[p]
    IN  /\ r.pc = "update"
        /\ \/ /\ r.route = "face"
              /\ attendance' = attendance
              /\ Step(p,
                           Respond(r, 401, "Captured face does not match enrolled face"))
           \/ \E userId \in UserIdInputs, hasFile \in BOOLEAN :
                 /\ r.route = "face" => hasFile
                 /\ attendance' = updatePunch(r.attendance_id, r.punch_type = "IN",
                                              IF hasFile THEN p ELSE Null,
                                              resolvePunchActor(userId))
                 /\ Step(p,
                              IF r.attendance_id \in RowIds THEN Respond(r, 200, "")
                              ELSE Respond(r, 500, "Attendance update failed"))
        /\ UNCHANGED <<clock, started, env, probe, accessVars, extraVars>>

\* Time passes.
Tick ==
    /\ clock < Len(Timeline)
    /\ clock' = clock + 1
    /\ UNCHANGED <<attendance, req, started, last, env, probe, accessVars, extraVars>>

-----------------------------------------------------------------------------
(* Roles, permissions and the permission cache *)

\* The permissions table, id -> module and action as stored: rows written
\* through upsertPermission are lower case, row 3 is one that is not.
Permissions ==
    (1 :> [module |-> "city", action |-> "view"]) @@
    (2 :> [module |-> "ward", action |-> "view"]) @@
    (3 :> [module |-> "City", action |-> "View"])

PermissionIds == DOMAIN Permissions

\* The roles of the tables, and the cities.
RoleIds == {1, 2}

CityIds == {2, 5, 7}

\* String.prototype.toLowerCase on the module, action and role strings.
toLowerCase(s) ==
    CASE s = "City" -> "city" [] s = "View" -> "view" [] s = "Admin" -> "admin"
      [] OTHER -> s

\* `${module}:${action}`.toLowerCase(), as the pair of its two parts.
permissionKey(module, action) == <<toLowerCase(module), toLowerCase(action)>>

\* The rows of fetchUserPermissions' query for a user in the tables d: one
\* row with NULL city per (user_roles, role_permissions) pair, one row per
\* user_permissions row.  `via` tells rows of the UNION ALL apart.
PermissionRows(d, userId) ==
    {[module |-> Permissions[rp[2]].module, action |-> Permissions[rp[2]].action,
      city_id |-> Null, via |-> <<"role", rp[1]>>] :
         rp \in {x \in d.role_permissions : <<userId, x[1]>> \in d.user_roles}}
    \cup
    {[module |-> Permissions[up[2]].module, action |-> Permissions[up[2]].action,
      city_id |-> up[3], via |-> <<"user", 0>>] :
         up \in {x \in d.user_permissions : x[1] = userId}}

\* The orders in which a query without ORDER BY may return the rows S.
Orderings(S) ==
    {f \in [1..Cardinality(S) -> S] :
        \A i, j \in 1..Cardinality(S) : i # j => f[i] # f[j]}

\* { set: new Set(), cityMap: new Map() }
EmptyPayload == [set |-> {}, cityMap |-> << >>]

\* The scope of a key after a row, with the rows' NULL city not told from a
\* city: it is added to ids like one.
scopeAfterRowNoCollapse(scope, city_id) ==
    IF ~scope.all THEN [all |-> FALSE, ids |-> scope.ids \cup {city_id}]
    ELSE scope

\* The scope of a key after a row with city_id.
scopeAfterRow(scope, city_id) ==
    IF city_id = Null THEN [all |-> TRUE, ids |-> {}]
    ELSE IF ~scope.all THEN [all |-> FALSE, ids |-> scope.ids \cup {city_id}]
    ELSE scope

\* cityMap.get(key) after cityMap.has / cityMap.set
scopeOrNew(cityMap, key) ==
    IF key \in DOMAIN cityMap THEN cityMap[key] ELSE [all |-> FALSE, ids |-> {}]

\* The body of rows.forEach in fetchUserPermissions.
addPermissionRow(payload, key, city_id) ==
    [set |-> payload.set \cup {key},
     cityMap |-> (key :> scopeAfterRow(scopeOrNew(payload.cityMap, key), city_id))
                    @@ payload.cityMap]

RECURSIVE forEachRow(_, _)

\* rows.forEach(...) from the payload so far.
forEachRow(rows, payload) ==
    IF rows = << >> THEN payload
    ELSE forEachRow(Tail(rows),
                    addPermissionRow(payload,
                                     permissionKey(Head(rows).module, Head(rows).action),
                                     Head(rows).city_id))

\* buildCacheKey without the version in the key.
buildCacheKeyUnversioned(userId) == <<userId, 0>>

\* buildCacheKey(userId): `${userId}:${cacheVersion}`
buildCacheKey(userId) == <<userId, cacheVersion>>

\* Bounds of the lookups and writes of a behaviour.
MaxLookups == 3

NumLookupSlots == 2

LookupSlots == 1..NumLookupSlots

\* userId as fetchUserPermissions is called with: none, or a user.
LookupUsers == {Null, 1}

IdleLookup ==
    [pc |-> "idle", userId |-> Null, cacheKey |-> <<Null, 0>>, rows |-> << >>,
     payload |-> EmptyPayload, served |-> "", readAt |-> 0, mustSee |-> 0,
     version |-> 0, entryVersion |-> 0]

\* fetchUserPermissions(userId) up to its await, in slot s: no user, a
\* cache hit, or the query is sent.  `mustSee` notes the commits an
\* invalidation has followed so far, `readAt` the commits the rows of a
\* payload were read after, `version` the cacheVersion at the call and
\* `entryVersion` that of the call which stored the entry served.
fetchStart(s, userId) ==
    /\ lookup[s].pc \in {"idle", "done"}
    /\ history.lookups < MaxLookups
    /\ lookup' = [lookup EXCEPT ![s] =
          IF userId = Null
          THEN [IdleLookup EXCEPT !.pc = "done", !.served = "none",
                                  !.mustSee = history.invalidated,
                                  !.readAt = history.commits]
          ELSE IF buildCacheKey(userId) \in DOMAIN permissionCache
          THEN [IdleLookup EXCEPT !.pc = "done", !.served = "cache",
                                  !.userId = userId,
                                  !.cacheKey = buildCacheKey(userId),
                                  !.mustSee = history.invalidated,
                                  !.version = cacheVersion,
                                  !.entryVersion = permissionCache[buildCacheKey(userId)].version,
                                  !.payload = permissionCache[buildCacheKey(userId)].payload,
                                  !.readAt = permissionCache[buildCacheKey(userId)].readAt]
          ELSE [IdleLookup EXCEPT !.pc = "query", !.userId = userId,
                                  !.cacheKey = buildCacheKey(userId),
                                  !.version = cacheVersion,
                                  !.mustSee = history.invalidated]]
    /\ history' = [history EXCEPT !.lookups = @ + 1]

\* fetchUserPermissions is called, by a request not modelled further.
LookupStart(s) ==
    /\ \E userId \in LookupUsers : fetchStart(s, userId)
    /\ UNCHANGED <<attendanceVars, extraVars, db, cacheVersion, permissionCache, writer, http, call>>

\* pool.query(query, [userId]): the rows as the tables hold them now, in
\* the order the database returns them.
LookupQuery(s) ==
    /\ lookup[s].pc = "query"
    /\ \E rows \in Orderings(PermissionRows(db, lookup[s].userId)) :
          lookup' = [lookup EXCEPT ![s].pc = "store", ![s].rows = rows,
                                   ![s].readAt = history.commits]
    /\ UNCHANGED <<attendanceVars, extraVars, db, cacheVersion, permissionCache, writer,
                   history, http, call>>

\* fetchUserPermissions after its await: the payload is built, cached under
\* the key computed before the await, and returned.
LookupStore(s) ==
    /\ lookup[s].pc = "store"
    /\ LET payload == forEachRow(lookup[s].rows, EmptyPayload)
       IN  /\ lookup' = [lookup EXCEPT ![s].pc = "done", ![s].served = "query",
                                       ![s].payload = payload]
           /\ permissionCache' =
                 (lookup[s].cacheKey :> [payload |-> payload, readAt |-> lookup[s].readAt,
                                         version |-> lookup[s].version])
                    @@ permissionCache
    /\ UNCHANGED <<attendanceVars, extraVars, db, cacheVersion, writer, history, http, call>>

\* An invalidation that clears the cache and leaves the version.
invalidateWithoutBump ==
    /\ cacheVersion' = cacheVersion
    /\ permissionCache' = << >>

\* invalidatePermissionCache(): the version and the cache after it.
invalidatePermissionCache ==
    /\ cacheVersion' = cacheVersion + 1
    /\ permissionCache' = << >>

\* The tables with no grant in them.
EmptyDb ==
    [user_roles |-> {}, role_permissions |-> {}, user_permissions |-> {},
     user_city_access |-> {}]

\* What has happened so far: the statements committed, the commits the
\* last invalidation followed, the tables after each commit, and the
\* lookups, writes and requests begun.
NoHistory ==
    [commits |-> 0, invalidated |-> 0, snaps |-> << >>, lookups |-> 0, writes |-> 0,
     requests |-> 0]

IdleWriter ==
    [pc |-> "idle", kind |-> "", target |-> 0, permissions |-> {}, status |-> 0,
     changed |-> FALSE, version |-> 0]

\* An empty scope, as requireCityScope takes an absent req.cityScope.
EmptyScope == [all |-> FALSE, ids |-> {}]

AllScope == [all |-> TRUE, ids |-> {}]

NoUser == [user_id |-> Null, role |-> ""]

NoRequest ==
    [stage |-> "none", route |-> "", token |-> "none", user |-> NoUser, slot |-> 0,
     cityName |-> Null, cityScope |-> EmptyScope, permissionScopes |-> << >>,
     status |-> 0, handled |-> FALSE, looked |-> FALSE, rows |-> {}]

\* cityScope of a builder call when resolveCityScope gives none.
UndefinedScope == [defined |-> FALSE, all |-> FALSE, ids |-> {}]

NoCall ==
    [stage |-> 0, grouping |-> "", query |-> << >>, cityScope |-> UndefinedScope,
     filters |-> << >>, params |-> << >>]

\* No grant, an empty permission cache, no lookup, write or request.
AccessIdle ==
    /\ db = EmptyDb
    /\ cacheVersion = 0
    /\ permissionCache = << >>
    /\ lookup = [s \in LookupSlots |-> IdleLookup]
    /\ writer = IdleWriter
    /\ history = NoHistory
    /\ http = NoRequest
    /\ call = NoCall

-----------------------------------------------------------------------------
(* Requests through authenticate, authorize and the city scope chain *)

MaxHttpRequests == 2

\* The routes: GET /api/cities, GET /api/zones, and POST /, GET /download,
\* GET /short-report under /attendance.
Routes == {"cities", "zones", "attendance", "download", "short-report"}

\* Routes guarded by authorize(module, action), with the key it is given.
AuthorizedRoutes == {"cities"}

RequiredKey(route) == permissionKey("city", "view")

\* allowEmptyForAdmin of the route's requireCityScope(...).
AllowEmptyForAdmin(route) == route = "zones"

CITY_PERMISSION_KEY == <<"city", "view">>

\* The payloads of the tokens presented: what authRoutes signs, and tokens
\* without a user_id.
TokenUsers ==
    {[user_id |-> u, role |-> r] :
        u \in {Null, 1}, r \in {"supervisor", "admin"}}
    \cup {[user_id |-> 1, role |-> "Admin"]}

\* normalizeScope(scope), scope being cityMap.get(key): undefined when the
\* map has no such key.
normalizeScope(cityMap, key) ==
    IF key \notin DOMAIN cityMap THEN AllScope
    ELSE IF cityMap[key].all THEN AllScope
    ELSE [all |-> FALSE, ids |-> cityMap[key].ids]

\* requireCityScope that lets every request through.
requireCityScopeLax(allowEmptyForAdmin, scope, user) == TRUE

\* requireCityScope(allowEmptyForAdmin)(req, res, next): TRUE when next()
\* is called.
requireCityScope(allowEmptyForAdmin, scope, user) ==
    \/ scope.all
    \/ scope.ids # {}
    \/ allowEmptyForAdmin /\ toLowerCase(user.role) = "admin"

\* The permission check of authorize passing on every payload.
hasPermissionLax(payload, key) == TRUE

\* permissionPayload.set.has(key)
hasPermission(payload, key) == key \in payload.set

\* req.permissionScopes after authorize copied the key's scope into it.
copyPermissionScope(permissionScopes, payload, key) ==
    IF key \notin DOMAIN permissionScopes /\ key \in DOMAIN payload.cityMap
    THEN (key :> payload.cityMap[key]) @@ permissionScopes
    ELSE permissionScopes

\* getPermissionCityFilter(req, module, action): null, or the ids.
getPermissionCityFilter(permissionScopes, key) ==
    IF key \notin DOMAIN permissionScopes THEN [isNull |-> TRUE, ids |-> {}]
    ELSE IF permissionScopes[key].all \/ permissionScopes[key].ids = {}
    THEN [isNull |-> TRUE, ids |-> {}]
    ELSE [isNull |-> FALSE, ids |-> permissionScopes[key].ids]

\* rows.filter(...) by the allowed cities, when there are any.
filterAllowed(cities, allowed) ==
    IF ~allowed.isNull /\ allowed.ids # {} THEN cities \cap allowed.ids ELSE cities

\* The scope block of the report filter builders: no predicate, "1 = 0",
\* or c.city_id = ANY(ids).
scopePredicate(cityScope) ==
    IF cityScope.all THEN [kind |-> "none", ids |-> {}]
    ELSE IF cityScope.ids = {} THEN [kind |-> "false", ids |-> {}]
    ELSE [kind |-> "any", ids |-> cityScope.ids]

\* The cities whose rows a WHERE clause with this predicate selects.
selectBy(predicate, cities) ==
    CASE predicate.kind = "none" -> cities
      [] predicate.kind = "false" -> {}
      [] OTHER -> cities \cap predicate.ids

\* The status a handler answers with.
handlerStatus(h) ==
    IF h.route = "short-report" /\ h.cityName = Null THEN 400
    ELSE IF h.route = "short-report" /\ ~h.cityScope.all /\ h.cityScope.ids = {} THEN 403
    ELSE 200

\* The cities of the rows a handler answers with; every city has rows.
handlerRows(h) ==
    CASE h.route = "cities" ->
            filterAllowed(CityIds, getPermissionCityFilter(h.permissionScopes, CITY_PERMISSION_KEY))
      [] h.route = "zones" ->
            filterAllowed({c \in CityIds : h.cityScope.all \/ c \in h.cityScope.ids},
                          getPermissionCityFilter(h.permissionScopes, CITY_PERMISSION_KEY))
      [] h.route = "attendance" -> CityIds
      [] h.route = "download" -> selectBy(scopePredicate(h.cityScope), CityIds)
      [] OTHER ->
            {c \in CityIds : c = h.cityName /\ (h.cityScope.all \/ c \in h.cityScope.ids)}

\* A request arrives and authenticate runs: 401 without a token, 403 with
\* one that does not verify, req.user = decoded otherwise.
HttpReceive ==
    /\ http.stage \in {"none", "done"}
    /\ history.requests < MaxHttpRequests
    /\ \E route \in Routes, token \in {"none", "invalid", "valid"}, user \in TokenUsers,
          cityName \in {Null, 2, 7} :
          /\ token # "valid" => user = [user_id |-> 1, role |-> "supervisor"]
          /\ route # "short-report" => cityName = Null
          /\ http' = [NoRequest EXCEPT
                !.route = route, !.token = token, !.cityName = cityName,
                !.user = IF token = "valid" THEN user ELSE NoUser,
                !.stage = IF token # "valid" THEN "done"
                          ELSE IF route \in AuthorizedRoutes THEN "authorize"
                          ELSE "attach",
                !.status = CASE token = "none" -> 401 [] token = "invalid" -> 403
                             [] OTHER -> 0]
    /\ history' = [history EXCEPT !.requests = @ + 1]
    /\ UNCHANGED <<attendanceVars, extraVars, db, cacheVersion, permissionCache, lookup, writer, call>>

\* authorize(...) up to its await: 401 without a user id, next() for the
\* role admin, the permission lookup otherwise.
AuthorizeCall ==
    /\ http.stage = "authorize"
    /\ IF http.user.user_id = Null
       THEN /\ http' = [http EXCEPT !.stage = "done", !.status = 401]
            /\ UNCHANGED <<lookup, history>>
       ELSE IF http.user.role = "admin"
       THEN /\ http' = [http EXCEPT !.stage = "handler"]
            /\ UNCHANGED <<lookup, history>>
       ELSE \E s \in LookupSlots :
               /\ fetchStart(s, http.user.user_id)
               /\ http' = [http EXCEPT !.stage = "authorizeWait", !.slot = s,
                                       !.looked = TRUE]
    /\ UNCHANGED <<attendanceVars, extraVars, db, cacheVersion, permissionCache, writer, call>>

\* authorize(...) after its await: 403 without the key, else the key's
\* scope is copied into req.permissionScopes and next() is called.
AuthorizeCheck ==
    /\ http.stage = "authorizeWait"
    /\ lookup[http.slot].pc = "done"
    /\ http' =
          IF ~hasPermission(lookup[http.slot].payload, RequiredKey(http.route))
          THEN [http EXCEPT !.stage = "done", !.status = 403]
          ELSE [http EXCEPT !.stage = "handler",
                            !.permissionScopes =
                                copyPermissionScope(@, lookup[http.slot].payload,
                                                    RequiredKey(http.route))]
    /\ UNCHANGED <<attendanceVars, extraVars, db, cacheVersion, permissionCache, lookup, writer,
                   history, call>>

\* attachCityScope, buildCityScopeForUser up to its await.
AttachCall ==
    /\ http.stage = "attach"
    /\ IF http.user.user_id = Null
       THEN /\ http' = [http EXCEPT !.stage = "require", !.cityScope = EmptyScope]
            /\ UNCHANGED <<lookup, history>>
       ELSE IF toLowerCase(http.user.role) = "admin"
       THEN /\ http' = [http EXCEPT !.stage = "require", !.cityScope = AllScope]
            /\ UNCHANGED <<lookup, history>>
       ELSE \E s \in LookupSlots :
               /\ fetchStart(s, http.user.user_id)
               /\ http' = [http EXCEPT !.stage = "attachWait", !.slot = s,
                                       !.looked = TRUE]
    /\ UNCHANGED <<attendanceVars, extraVars, db, cacheVersion, permissionCache, writer, call>>

\* buildCityScopeForUser after its await; req.cityScope = scope; next().
AttachDone ==
    /\ http.stage = "attachWait"
    /\ lookup[http.slot].pc = "done"
    /\ http' = [http EXCEPT !.stage = "require",
                            !.cityScope = normalizeScope(lookup[http.slot].payload.cityMap,
                                                         CITY_PERMISSION_KEY)]
    /\ UNCHANGED <<attendanceVars, extraVars, db, cacheVersion, permissionCache, lookup, writer,
                   history, call>>

\* requireCityScope(allowEmptyForAdmin): next(), or 403.
RequireScope ==
    /\ http.stage = "require"
    /\ http' =
          IF requireCityScope(AllowEmptyForAdmin(http.route), http.cityScope, http.user)
          THEN [http EXCEPT !.stage = "handler"]
          ELSE [http EXCEPT !.stage = "done", !.status = 403]
    /\ UNCHANGED <<attendanceVars, extraVars, db, cacheVersion, permissionCache, lookup, writer,
                   history, call>>

\* The route's handler runs and answers.
HttpHandler ==
    /\ http.stage = "handler"
    /\ http' = [http EXCEPT !.stage = "done", !.handled = TRUE,
                            !.status = handlerStatus(http),
                            !.rows = IF handlerStatus(http) = 200 THEN handlerRows(http)
                                     ELSE {}]
    /\ UNCHANGED <<attendanceVars, extraVars, db, cacheVersion, permissionCache, lookup, writer,
                   history, call>>

-----------------------------------------------------------------------------
(* Requests that write roles' and users' grants *)

MaxWrites == 2

\* A permission id with no row in permissions: role_permissions and
\* user_permissions reference permissions(id).
NoSuchPermission == 4

\* The permissions array of PUT /roles/:roleId, as ids.
RolePermissionLists == {{}, {2}, {1, NoSuchPermission}}

\* The permissions array of PUT /users/:userId, as (permission, city).
UserPermissionLists ==
    {{}, {<<2, Null>>, <<1, 5>>}, {<<NoSuchPermission, Null>>}}

\* PUT /roles/:roleId with a permissions array: the role's row is updated.
RoleWriteReceive ==
    /\ writer.pc \in {"idle", "done"}
    /\ history.writes < MaxWrites
    /\ \E roleId \in RoleIds, permissions \in RolePermissionLists :
          writer' = [IdleWriter EXCEPT !.pc = "delete", !.kind = "role",
                                       !.target = roleId, !.permissions = permissions,
                                       !.version = cacheVersion]
    /\ history' = [history EXCEPT !.writes = @ + 1]
    /\ UNCHANGED <<attendanceVars, extraVars, db, cacheVersion, permissionCache, lookup, http, call>>

\* syncRolePermissions: DELETE FROM role_permissions WHERE role_id = $1
RoleWriteDelete ==
    /\ writer.pc = "delete"
    /\ db' = [db EXCEPT !.role_permissions = {rp \in @ : rp[1] # writer.target}]
    /\ history' = [history EXCEPT !.commits = @ + 1, !.snaps = Append(@, db')]
    /\ writer' = [writer EXCEPT !.changed = @ \/ db' # db,
                                !.pc = IF writer.permissions = {} THEN "respond"
                                       ELSE "insert"]
    /\ UNCHANGED <<attendanceVars, extraVars, cacheVersion, permissionCache, lookup, http, call>>

\* syncRolePermissions: INSERT INTO role_permissions ... ON CONFLICT DO
\* NOTHING; the statement throws on a permission id without a row.
RoleWriteInsert ==
    /\ writer.pc = "insert"
    /\ IF writer.permissions \subseteq PermissionIds
       THEN /\ db' = [db EXCEPT !.role_permissions =
                          @ \cup {<<writer.target, perm>> : perm \in writer.permissions}]
            /\ history' = [history EXCEPT !.commits = @ + 1, !.snaps = Append(@, db')]
            /\ writer' = [writer EXCEPT !.changed = @ \/ db' # db, !.pc = "respond"]
       ELSE /\ writer' = [writer EXCEPT !.pc = "failed"]
            /\ UNCHANGED <<db, history>>
    /\ UNCHANGED <<attendanceVars, extraVars, cacheVersion, permissionCache, lookup, http, call>>

\* PUT /users/:userId with a permissions array.
UserWriteReceive ==
    /\ writer.pc \in {"idle", "done"}
    /\ history.writes < MaxWrites
    /\ \E permissions \in UserPermissionLists :
          writer' = [IdleWriter EXCEPT !.pc = "transaction", !.kind = "user",
                                       !.target = 1, !.permissions = permissions,
                                       !.version = cacheVersion]
    /\ history' = [history EXCEPT !.writes = @ + 1]
    /\ UNCHANGED <<attendanceVars, extraVars, db, cacheVersion, permissionCache, lookup, http, call>>

\* withTransaction(syncUserPermissions ...): COMMIT of the DELETE and the
\* INSERT together, or ROLLBACK when the INSERT throws.
UserWriteTransaction ==
    /\ writer.pc = "transaction"
    /\ IF {perm[1] : perm \in writer.permissions} \subseteq PermissionIds
       THEN /\ db' = [db EXCEPT !.user_permissions =
                          {up \in @ : up[1] # writer.target}
                             \cup {<<writer.target, perm[1], perm[2]>> :
                                      perm \in writer.permissions}]
            /\ history' = [history EXCEPT !.commits = @ + 1, !.snaps = Append(@, db')]
            /\ writer' = [writer EXCEPT !.changed = @ \/ db' # db, !.pc = "respond"]
       ELSE /\ writer' = [writer EXCEPT !.pc = "failed"]
            /\ UNCHANGED <<db, history>>
    /\ UNCHANGED <<attendanceVars, extraVars, cacheVersion, permissionCache, lookup, http, call>>

\* invalidatePermissionCache(); res.json(...)
WriteRespond ==
    /\ writer.pc = "respond"
    /\ invalidatePermissionCache
    /\ history' = [history EXCEPT !.invalidated = history.commits]
    /\ writer' = [writer EXCEPT !.pc = "done", !.status = 200]
    /\ UNCHANGED <<attendanceVars, extraVars, db, lookup, http, call>>

\* catch (error) { res.status(500).json(...) }
WriteFail ==
    /\ writer.pc = "failed"
    /\ writer' = [writer EXCEPT !.pc = "done", !.status = 500]
    /\ UNCHANGED <<attendanceVars, extraVars, db, cacheVersion, permissionCache, lookup, history,
                   http, call>>

-----------------------------------------------------------------------------
(* The filter builders of the attendance download *)

\* The query parameters the builders read.
QueryFields ==
    {"date", "start_date", "end_date", "zone_id", "ward_id", "city_id",
     "supervisor_id", "employee_id", "emp_code", "zone_name", "ward_name",
     "city_name", "supervisor_name", "search", "location", "has_punch_in",
     "has_punch_out"}

\* A query parameter as received; "" stands for an absent one too.
RawValues == {"", " ", "all", "abc", "12", "yes", "0"}

\* String.prototype.trim
trim(raw) == IF raw = " " THEN "" ELSE raw

NullInteger == [isNull |-> TRUE, n |-> 0]

\* parseIntegerParam(value): null, or Number(value) when it is finite.
parseIntegerParam(raw) ==
    CASE raw = "" -> NullInteger
      [] raw = "all" -> NullInteger
      [] raw = " " -> [isNull |-> FALSE, n |-> 0]
      [] raw = "0" -> [isNull |-> FALSE, n |-> 0]
      [] raw = "12" -> [isNull |-> FALSE, n |-> 12]
      [] OTHER -> NullInteger

\* parseBooleanFlag(value): "true", "false" or "null".
parseBooleanFlag(raw) ==
    CASE trim(raw) = "" -> "null"
      [] raw = "yes" -> "true"
      [] raw = "0" -> "false"
      [] OTHER -> "null"

\* The entries of params: a number, a text (between % signs when wild), or
\* the array of the scope's ids.
IntParam(n) == [kind |-> "int", n |-> n, s |-> "", wild |-> FALSE, ids |-> {}]

TextParam(text, wildcard) ==
    [kind |-> "text", n |-> 0, s |-> text, wild |-> wildcard, ids |-> {}]

IdsParam(ids) == [kind |-> "ids", n |-> 0, s |-> "", wild |-> FALSE, ids |-> ids]

\* A filter whose placeholder is numbered before its value is pushed.
pushParamEarly(acc, value, expr) ==
    [params |-> Append(acc.params, value),
     filters |-> Append(acc.filters, [expr |-> expr, ph |-> Len(acc.params), flag |-> ""])]

\* params.push(value); placeholder = `$${params.length}`;
\* filters.push(builder(placeholder))
pushParam(acc, value, expr) ==
    [params |-> Append(acc.params, value),
     filters |-> Append(acc.filters, [expr |-> expr, ph |-> Len(acc.params) + 1, flag |-> ""])]

\* filters.push(...) of a condition without a placeholder.
pushBare(acc, expr, flag) ==
    [params |-> acc.params,
     filters |-> Append(acc.filters, [expr |-> expr, ph |-> 0, flag |-> flag])]

addTextFilter(acc, raw, expr, wildcard) ==
    IF trim(raw) = "" THEN acc ELSE pushParam(acc, TextParam(trim(raw), wildcard), expr)

addNumericFilter(acc, raw, expr) ==
    IF parseIntegerParam(raw).isNull THEN acc
    ELSE pushParam(acc, IntParam(parseIntegerParam(raw).n), expr)

addFlagFilter(acc, raw, expr) ==
    IF parseBooleanFlag(raw) = "null" THEN acc ELSE pushBare(acc, expr, parseBooleanFlag(raw))

\* if (cityScope && !cityScope.all) { ... }
addScopeFilter(acc, cityScope) ==
    IF ~cityScope.defined THEN acc
    ELSE CASE scopePredicate(cityScope).kind = "none" -> acc
           [] scopePredicate(cityScope).kind = "false" -> pushBare(acc, "1 = 0", "")
           [] OTHER -> pushParam(acc, IdsParam(cityScope.ids), "c.city_id = ANY($)")

FilterStep(field, type, expr, wildcard, guarded) ==
    [field |-> field, type |-> type, expr |-> expr, wildcard |-> wildcard,
     guarded |-> guarded]

\* The filters of buildAttendanceFilters in the order it adds them; the
\* guarded ones are added only without a date.
AttendanceSteps ==
    << FilterStep("date", "text", "a.date = $", FALSE, FALSE),
       FilterStep("start_date", "text", "a.date >= $", FALSE, TRUE),
       FilterStep("end_date", "text", "a.date <= $", FALSE, TRUE),
       FilterStep("zone_id", "numeric", "z.zone_id = $", FALSE, FALSE),
       FilterStep("ward_id", "numeric", "w.ward_id = $", FALSE, FALSE),
       FilterStep("city_id", "numeric", "c.city_id = $", FALSE, FALSE),
       FilterStep("supervisor_id", "numeric", "supervisor.user_id = $", FALSE, FALSE),
       FilterStep("employee_id", "numeric", "a.emp_id = $", FALSE, FALSE),
       FilterStep("emp_code", "text", "e.emp_code = $", FALSE, FALSE),
       FilterStep("zone_name", "text", "z.zone_name ILIKE $", TRUE, FALSE),
       FilterStep("ward_name", "text", "w.ward_name ILIKE $", TRUE, FALSE),
       FilterStep("city_name", "text", "c.city_name ILIKE $", TRUE, FALSE),
       FilterStep("supervisor_name", "text", "COALESCE(supervisor.name, '') ILIKE $", TRUE, FALSE),
       FilterStep("search", "text", "(e.name ILIKE $ OR e.emp_code ILIKE $)", TRUE, FALSE),
       FilterStep("location", "text", "(locationExpression ILIKE $)", TRUE, FALSE),
       FilterStep("has_punch_in", "flag", "a.punch_in_time", FALSE, FALSE),
       FilterStep("has_punch_out", "flag", "a.punch_out_time", FALSE, FALSE) >>

\* The filters of buildSupervisorSummaryFilters in the order it adds them.
SupervisorSummarySteps ==
    << FilterStep("city_id", "numeric", "c.city_id = $", FALSE, FALSE),
       FilterStep("zone_id", "numeric", "z.zone_id = $", FALSE, FALSE),
       FilterStep("ward_id", "numeric", "w.ward_id = $", FALSE, FALSE),
       FilterStep("supervisor_id", "numeric", "supervisor.user_id = $", FALSE, FALSE),
       FilterStep("supervisor_name", "text", "COALESCE(supervisor.name, '') ILIKE $", FALSE, FALSE) >>

\* One filter of a builder.
addStep(acc, step, query) ==
    IF step.guarded /\ trim(query["date"]) # "" THEN acc
    ELSE CASE step.type = "text" ->
                addTextFilter(acc, query[step.field], step.expr, step.wildcard)
           [] step.type = "numeric" -> addNumericFilter(acc, query[step.field], step.expr)
           [] OTHER -> addFlagFilter(acc, query[step.field], step.expr)

RECURSIVE addSteps(_, _, _)

addSteps(acc, steps, query) ==
    IF steps = << >> THEN acc
    ELSE addSteps(addStep(acc, Head(steps), query), Tail(steps), query)

NoFilters == [params |-> << >>, filters |-> << >>]

buildAttendanceFilters(query, cityScope) ==
    addScopeFilter(addSteps(NoFilters, AttendanceSteps, query), cityScope)

buildSupervisorSummaryFilters(query, cityScope) ==
    addScopeFilter(addSteps(NoFilters, SupervisorSummarySteps, query), cityScope)

\* The handler's choice of builder by group_by.
buildFilters(grouping, query, cityScope) ==
    IF grouping = "supervisor_summary" THEN buildSupervisorSummaryFilters(query, cityScope)
    ELSE buildAttendanceFilters(query, cityScope)

\* const filterResult = ... in the download handler.
BuildFilters ==
    /\ call.stage = 0
    /\ call.grouping # ""
    /\ call' = [call EXCEPT
          !.stage = 1,
          !.filters = buildFilters(call.grouping, call.query, call.cityScope).filters,
          !.params = buildFilters(call.grouping, call.query, call.cityScope).params]
    /\ UNCHANGED <<attendanceVars, extraVars, db, cacheVersion, permissionCache, lookup, writer,
                   history, http>>

-----------------------------------------------------------------------------
(* POST /face-attendance step by step: the gallery search, the record, and  *)
(* processPunch with its upload, its pairwise compare and its UPDATE; one   *)
(* face in single mode, every detected face in turn in group mode.          *)

\* Faces DetectFaces reports in one frame.
MaxFaces == 3

\* FACE_MATCH_THRESHOLD unset: Number("90").
DEFAULT_FACE_MATCH_THRESHOLD == 90

\* faceMatchThreshold of the request body: absent, or a number.
ThresholdInputs == {Null, 80}

\* matchThreshold: the body's number when it is finite, else the default.
matchThreshold(rawThreshold) ==
    IF rawThreshold = Null THEN DEFAULT_FACE_MATCH_THRESHOLD ELSE rawThreshold

\* CompareFaces: no match at all, or the similarity of the best match.
NoMatch == [matched |-> FALSE, Similarity |-> 0]

CompareResults == {NoMatch} \cup {[matched |-> TRUE, Similarity |-> s] : s \in {85, 95}}

\* uploadAttendanceImage(buffer, path): it throws, it returns a result
\* without a key, or it stores the image and returns its url and key.
UploadOutcomes == {"throws", "nokey", "stored"}

\* The request, its locals, and the process and tables around it: bucket
\* is whether AWS_S3_BUCKET is set, enrolled the employees whose
\* face_embedding is set.  resolved keeps, per face handled, the employee
\* the gallery search resolved it to; events the calls made for the
\* current face; verified whether the compare of the current face
\* returned a similarity at or above the threshold.
NoFace ==
    [pc |-> "idle", mode |-> "", punchType |-> "", threshold |-> 0,
     total |-> 0, index |-> 0, processedEmployees |-> {}, results |-> << >>,
     emp |-> Null, attendance_id |-> Null, key |-> FALSE,
     similarity |-> 0, verified |-> FALSE, events |-> << >>, resolved |-> << >>,
     status |-> 0, success |-> FALSE, punched_count |-> 0,
     bucket |-> TRUE, enrolled |-> {}]

AWS_S3_BUCKET == face.bucket

\* The logical date of a request that carries no date field.
faceDate == resolveAttendanceDate(<<EmptySource, EmptySource>>, Now, RolloverHour)

\* res.status(status).json(...) of the face-attendance route.
faceRespond(f, status) ==
    [f EXCEPT !.pc = "done", !.status = status, !.success = (status = 200)]

\* results.push({faceIndex, status, employeeId, message})
pushResult(f, status, employeeId, message) ==
    [f EXCEPT !.results = Append(@, [faceIndex |-> f.index, status |-> status,
                                     employeeId |-> employeeId, message |-> message])]

\* The for loop goes on: the next face, or the statements after the loop.
continueLoop(f) ==
    IF f.index < f.total
    THEN [f EXCEPT !.pc = "crop", !.index = @ + 1, !.emp = Null, !.attendance_id = Null,
                   !.key = FALSE, !.similarity = 0, !.verified = FALSE, !.events = << >>]
    ELSE [f EXCEPT !.pc = "respond"]

\* The group loop's catch with the error thrown on.
catchSearchErrorRethrows(f, statusCode, message) == faceRespond(f, statusCode)

\* catch (searchError) of the group loop: an "error" entry for the face.
catchSearchError(f, statusCode, message) ==
    continueLoop(pushResult(f, "error", Null, message))

\* An error is thrown while the current face is handled: the loop's catch
\* in group mode, the route's catch in single mode.
faceThrow(f, statusCode, message) ==
    IF f.mode = "group" THEN catchSearchError(f, statusCode, message)
    ELSE faceRespond(f, statusCode)

\* A check fails that single mode answers with a status and group mode
\* records as the face's entry.
faceReject(f, statusCode, status, employeeId, message) ==
    IF f.mode = "group" THEN continueLoop(pushResult(f, status, employeeId, message))
    ELSE faceRespond(f, statusCode)

\* punchType of the route: OUT when the trimmed upper-cased punch_type is
\* OUT, else IN.
normalizedPunchType(raw) == IF toUpperCase(raw) = "OUT" THEN "OUT" ELSE "IN"

\* The route up to the first face: no image (400), no collection (500),
\* and in group mode no face detected (422), no image dimensions (400),
\* or the faces detected.
FaceReceive ==
    /\ face.pc = "idle"
    /\ \/ \E status \in {400, 500} : face' = faceRespond(face, status)
       \/ \E status \in {422, 400} :
              face' = faceRespond([face EXCEPT !.mode = "group"], status)
       \/ \E raw \in FacePunchTypes, rawThreshold \in ThresholdInputs :
              face' = [face EXCEPT !.pc = "search", !.mode = "single",
                                   !.punchType = normalizedPunchType(raw),
                                   !.threshold = matchThreshold(rawThreshold),
                                   !.total = 1, !.index = 1]
       \/ \E raw \in FacePunchTypes, rawThreshold \in ThresholdInputs,
             n \in 1..MaxFaces :
              face' = [face EXCEPT !.pc = "crop", !.mode = "group",
                                   !.punchType = normalizedPunchType(raw),
                                   !.threshold = matchThreshold(rawThreshold),
                                   !.total = n, !.index = 1]
    /\ UNCHANGED <<attendanceVars, accessVars, rbac, users, tx, cityCache, schema, csv>>

\* The group loop: computeCropRegion and the sharp extract of the face.
GroupCrop ==
    /\ face.pc = "crop"
    /\ \/ face' = continueLoop(pushResult([face EXCEPT !.resolved = Append(@, Null)],
                                           "skipped", Null, "crop region"))
       \/ face' = continueLoop(pushResult([face EXCEPT !.resolved = Append(@, Null)],
                                           "error", Null, "crop failed"))
       \/ face' = [face EXCEPT !.pc = "search"]
    /\ UNCHANGED <<attendanceVars, accessVars, rbac, users, tx, cityCache, schema, csv>>

\* SearchFacesByImage and resolveEmployeeFromFaceIdentifiers: the search
\* throws, it matches no face, the match is no employee's, or it is
\* employee e's, who in group mode may have been processed already.
FaceSearch ==
    /\ face.pc = "search"
    /\ \/ face' = faceThrow([face EXCEPT !.resolved = Append(@, Null)], 500, "search")
       \/ face' = faceReject([face EXCEPT !.resolved = Append(@, Null)],
                             401, "unmatched", Null, "no match")
       \/ face' = faceReject([face EXCEPT !.resolved = Append(@, Null)],
                             404, "unmatched", Null, "not linked")
       \/ \E e \in EmployeeIds :
             LET f == [face EXCEPT !.resolved = Append(@, e), !.emp = e,
                                   !.events = Append(@, "identify")]
             IN  face' = IF f.mode = "group" /\ e \in f.processedEmployees
                         THEN continueLoop(pushResult(f, "duplicate", e, "duplicate"))
                         ELSE [f EXCEPT !.pc = "record"]
    /\ UNCHANGED <<attendanceVars, accessVars, rbac, users, tx, cityCache, schema, csv>>

\* getOrCreateAttendanceRecord(emp_id, date, {punchType, createIfMissing:
\* punchType !== OUT}) run with no other request beside it: the id of the
\* record it returns in the table `after` it, Null for none.
faceRecordId(emp_id, date, punchType, after) ==
    LET id == fetchAttendanceRecord(TargetRows(emp_id, date))
        needsOpenCarryForward ==
            punchType = "OUT" /\ (id = Null \/ attendance[id].punch_in_time = Null)
        carried == IF needsOpenCarryForward
                   THEN fetchRecentOpenAttendance(emp_id, date) ELSE Null
    IN  IF carried # Null THEN carried
        ELSE IF id # Null THEN id
        ELSE IF punchType = "OUT" THEN Null
        ELSE CHOOSE i \in 1..Len(after) :
                after[i].emp_id = emp_id /\ after[i].date = ParseDate(date)

\* The table after that call: a row is inserted when neither the target
\* date's row nor a carried row is found and the punch is no punch out.
faceRecordTable(emp_id, date, punchType) ==
    LET id == fetchAttendanceRecord(TargetRows(emp_id, date))
    IN  IF id # Null \/ punchType = "OUT" THEN attendance
        ELSE insertOnConflictDoNothing(emp_id, date, employeeWard(emp_id))

\* getOrCreateAttendanceRecord and validatePunchAttempt for the employee
\* of the current face; a face found ineligible counts as processed.
FaceRecord ==
    /\ face.pc = "record"
    /\ \/ /\ face' = faceThrow(face, 500, "record")
          /\ attendance' = attendance
       \/ LET after == faceRecordTable(face.emp, faceDate, face.punchType)
              id    == faceRecordId(face.emp, faceDate, face.punchType, after)
              v     == validatePunchAttempt(id,
                           id # Null /\ after[id].punch_in_time # Null,
                           id # Null /\ after[id].punch_out_time # Null,
                           face.punchType)
              f     == [face EXCEPT !.attendance_id = id]
          IN  /\ attendance' = after
              /\ face' = IF v.status = 0 THEN [f EXCEPT !.pc = "upload"]
                         ELSE faceReject(
                                [f EXCEPT !.processedEmployees = @ \cup {f.emp}],
                                v.status, "skipped", f.emp, v.error)
    /\ UNCHANGED <<clock, req, started, last, env, probe, accessVars,
                   rbac, users, tx, cityCache, schema, csv>>

\* processPunch with requireFaceMatch, after the upload: the compare when
\* the bucket is configured and the upload gave a key, an error when it
\* gave none, else the UPDATE.
afterUpload(f, key) ==
    IF AWS_S3_BUCKET /\ key THEN [f EXCEPT !.pc = "verify", !.key = TRUE]
    ELSE IF ~key
    THEN faceThrow(f, 500, "Attendance image could not be uploaded; face verification failed")
    ELSE [f EXCEPT !.pc = "update", !.key = TRUE]

\* processPunch: uploadAttendanceImage.
FaceUpload ==
    /\ face.pc = "upload"
    /\ \E outcome \in UploadOutcomes :
          face' = CASE outcome = "throws" -> faceThrow(face, 500, "upload")
                    [] outcome = "nokey" -> afterUpload(face, FALSE)
                    [] OTHER ->
                        afterUpload([face EXCEPT !.events = Append(@, "upload")], TRUE)
    /\ UNCHANGED <<attendanceVars, accessVars, rbac, users, tx, cityCache, schema, csv>>

\* ensureFaceMatch(employeeId, attendanceKey, threshold) with the bucket
\* configured: the enrolment, then CompareFaces and its best match.
ensureFaceMatch(f, enrolled, compare) ==
    IF ~enrolled THEN faceThrow(f, 412, "Employee face enrollment is missing")
    ELSE IF ~compare.matched \/ compare.Similarity < f.threshold
    THEN faceThrow([f EXCEPT !.events = Append(@, "verify"),
                             !.similarity = compare.Similarity],
                   401, "Captured face does not match enrolled face")
    ELSE [f EXCEPT !.pc = "update", !.events = Append(@, "verify"),
                   !.similarity = compare.Similarity, !.verified = TRUE]

\* processPunch: ensureFaceMatch, whose CompareFaces call may throw.
FaceVerify ==
    /\ face.pc = "verify"
    /\ \/ /\ face.emp \in face.enrolled
          /\ face' = faceThrow([face EXCEPT !.events = Append(@, "verify")], 500, "compare")
       \/ \E compare \in CompareResults :
             face' = ensureFaceMatch(face, face.emp \in face.enrolled, compare)
    /\ UNCHANGED <<attendanceVars, accessVars, rbac, users, tx, cityCache, schema, csv>>

\* processPunch: the UPDATE of the row; the face is punched.
FaceUpdate ==
    /\ face.pc = "update"
    /\ \E userId \in UserIdInputs :
          attendance' = updatePunch(face.attendance_id, face.punchType = "IN",
                                    face.index, resolvePunchActor(userId))
    /\ LET f == [face EXCEPT !.events = Append(@, "update")]
       IN  face' = IF f.mode = "group"
                   THEN continueLoop(
                          [pushResult(f, "punched", f.emp, "punched")
                              EXCEPT !.processedEmployees = @ \cup {f.emp}])
                   ELSE faceRespond(f, 200)
    /\ UNCHANGED <<clock, req, started, last, env, probe, accessVars,
                   rbac, users, tx, cityCache, schema, csv>>

\* results.filter((entry) => entry.status === "punched").length
punchedCount(results) ==
    Cardinality({i \in 1..Len(results) : results[i].status = "punched"})

\* Group mode after the loop: res.json with success, punched_count, results.
GroupRespond ==
    /\ face.pc = "respond"
    /\ face' = [face EXCEPT !.pc = "done", !.status = 200,
                            !.punched_count = punchedCount(face.results),
                            !.success = (punchedCount(face.results) > 0)]
    /\ UNCHANGED <<attendanceVars, accessVars, rbac, users, tx, cityCache, schema, csv>>

-----------------------------------------------------------------------------
(* The role endpoints of /rbac: POST /roles, PUT /roles/:roleId and         *)
(* DELETE /roles/:roleId, statement by statement on the pool.               *)

\* Role requests handled in one run.
MaxRoleRequests == 2

\* name of a request body: absent, a system role's name as stored and
\* capitalised, a name of no seeded role.
RoleNameInputs == {"", "admin", "Admin", "auditor"}

\* description of a request body: absent, or a text.
DescriptionInputs == {"", "changed"}

\* permissions of a request body: no array, an empty array, an array of ids.
NoArray == [isArray |-> FALSE, ids |-> {}]

PermissionArrays == {NoArray, [isArray |-> TRUE, ids |-> {}], [isArray |-> TRUE, ids |-> {2}]}

\* The roles and role_permissions as runSchemaSetup seeds them: the
\* system roles admin, holding every permission, and supervisor.
SeededRoles ==
    {[id |-> 1, name |-> "admin", description |-> "Full platform administrator",
      is_system |-> TRUE],
     [id |-> 2, name |-> "supervisor", description |-> "Supervisor default role",
      is_system |-> TRUE]}

SeededRolePermissions == {1} \X PermissionIds

\* The tables, the id the roles sequence gives next, and the request
\* being handled: its route, the role it works on, the permission ids it
\* is to grant, its response.
NoRbac ==
    [roles |-> SeededRoles, role_permissions |-> SeededRolePermissions, nextId |-> 3,
     pc |-> "idle", route |-> "", roleId |-> Null, permissionIds |-> {},
     status |-> 0, requests |-> 0]

\* NULL in a text column or parameter.
NullText == ""

\* x || null
orNull(x) == IF x = "" THEN NullText ELSE x

RoleNamed(name) == {r \in rbac.roles : r.name = name}

\* INSERT INTO roles (name, description, is_system) VALUES ($1, $2, FALSE)
\* ON CONFLICT (name) DO UPDATE SET description = EXCLUDED.description
\* RETURNING id: the table after it.
upsertRole(name, description) ==
    IF RoleNamed(name) = {}
    THEN rbac.roles \cup {[id |-> rbac.nextId, name |-> name, description |-> description,
                           is_system |-> FALSE]}
    ELSE {IF r.name = name THEN [r EXCEPT !.description = description] ELSE r :
            r \in rbac.roles}

\* UPDATE roles SET name = COALESCE($2, name), description = COALESCE($3,
\* description) WHERE id = $1 AND is_system = FALSE: the table after it.
updateRole(roleId, name, description) ==
    {IF r.id = roleId /\ ~r.is_system
     THEN [r EXCEPT !.name = IF name = NullText THEN @ ELSE name,
                    !.description = IF description = NullText THEN @ ELSE description]
     ELSE r : r \in rbac.roles}

\* DELETE FROM roles WHERE id = $1 AND is_system = FALSE: the table after it.
deleteRole(roleId) == {r \in rbac.roles : ~(r.id = roleId /\ ~r.is_system)}

\* A role request is received.
RoleRequest(route) ==
    /\ rbac.pc \in {"idle", "done"}
    /\ rbac.requests < MaxRoleRequests
    /\ rbac' = [rbac EXCEPT !.pc = route, !.route = route, !.roleId = Null,
                            !.permissionIds = {}, !.status = 0, !.requests = @ + 1]
    /\ UNCHANGED <<attendanceVars, accessVars, face, users, tx, cityCache, schema, csv>>

\* POST /roles: the name is required; the upsert by name; the permission
\* ids of the body go to syncRolePermissions.
RolePost ==
    /\ rbac.pc = "post"
    /\ \E name \in RoleNameInputs, description \in DescriptionInputs,
          permissions \in PermissionArrays :
          IF name = "" THEN rbac' = [rbac EXCEPT !.pc = "done", !.status = 400]
          ELSE LET roles == upsertRole(toLowerCase(trim(name)), orNull(description))
                   row   == CHOOSE r \in roles : r.name = toLowerCase(trim(name))
               IN  rbac' = [rbac EXCEPT !.roles = roles,
                                        !.nextId = IF row.id = @ THEN @ + 1 ELSE @,
                                        !.roleId = row.id,
                                        !.permissionIds = permissions.ids,
                                        !.pc = "syncDelete"]
    /\ UNCHANGED <<attendanceVars, accessVars, face, users, tx, cityCache, schema, csv>>

\* PUT /roles/:roleId: the UPDATE of a role that is no system role (404
\* when it updates no row, 500 when the name is another role's); then
\* syncRolePermissions when the body has a permissions array.
RolePut ==
    /\ rbac.pc = "put"
    /\ \E roleId \in 1..rbac.nextId, name \in RoleNameInputs,
          description \in DescriptionInputs, permissions \in PermissionArrays :
          LET newName == IF name = "" THEN NullText ELSE toLowerCase(trim(name))
              roles   == updateRole(roleId, newName, orNull(description))
              hit     == \E r \in rbac.roles : r.id = roleId /\ ~r.is_system
              clash   == \E r \in rbac.roles : r.id # roleId /\ r.name = newName
          IN  rbac' = IF ~hit THEN [rbac EXCEPT !.pc = "done", !.status = 404]
                      ELSE IF clash THEN [rbac EXCEPT !.pc = "done", !.status = 500]
                      ELSE IF permissions.isArray
                      THEN [rbac EXCEPT !.roles = roles, !.roleId = roleId,
                                        !.permissionIds = permissions.ids,
                                        !.pc = "syncDelete"]
                      ELSE [rbac EXCEPT !.roles = roles, !.roleId = roleId,
                                        !.pc = "done", !.status = 200]
    /\ UNCHANGED <<attendanceVars, accessVars, face, users, tx, cityCache, schema, csv>>

\* DELETE /roles/:roleId: the DELETE of a role that is no system role,
\* its role_permissions going with it.
RoleDelete ==
    /\ rbac.pc = "delete"
    /\ \E roleId \in 1..rbac.nextId :
          LET hit == \E r \in rbac.roles : r.id = roleId /\ ~r.is_system
          IN  rbac' = IF ~hit THEN [rbac EXCEPT !.pc = "done", !.status = 404]
                      ELSE [rbac EXCEPT !.roles = deleteRole(roleId),
                                        !.role_permissions =
                                            {rp \in @ : rp[1] # roleId},
                                        !.pc = "done", !.status = 204]
    /\ UNCHANGED <<attendanceVars, accessVars, face, users, tx, cityCache, schema, csv>>

\* syncRolePermissions: DELETE FROM role_permissions WHERE role_id = $1,
\* which may throw.
RoleSyncDelete ==
    /\ rbac.pc = "syncDelete"
    /\ \/ rbac' = [rbac EXCEPT !.pc = "done", !.status = 500]
       \/ rbac' = [rbac EXCEPT !.role_permissions = {rp \in @ : rp[1] # rbac.roleId},
                               !.pc = IF rbac.permissionIds = {} THEN "respond"
                                      ELSE "syncInsert"]
    /\ UNCHANGED <<attendanceVars, accessVars, face, users, tx, cityCache, schema, csv>>

\* syncRolePermissions: INSERT INTO role_permissions ... ON CONFLICT DO
\* NOTHING, which may throw.
RoleSyncInsert ==
    /\ rbac.pc = "syncInsert"
    /\ \/ rbac' = [rbac EXCEPT !.pc = "done", !.status = 500]
       \/ rbac' = [rbac EXCEPT !.role_permissions =
                                   @ \cup ({rbac.roleId} \X rbac.permissionIds),
                               !.pc = "respond"]
    /\ UNCHANGED <<attendanceVars, accessVars, face, users, tx, cityCache, schema, csv>>

\* The response after syncRolePermissions: 201 from POST, 200 from PUT.
RoleRespond ==
    /\ rbac.pc = "respond"
    /\ rbac' = [rbac EXCEPT !.pc = "done",
                            !.status = IF rbac.route = "post" THEN 201 ELSE 200]
    /\ UNCHANGED <<attendanceVars, accessVars, face, users, tx, cityCache, schema, csv>>

-----------------------------------------------------------------------------
(* PUT /rbac/users/:userId in its transaction, and fetchUserCityAccess     *)
(* with its cache, for one user who is no admin.                           *)

\* PUT /rbac/users/:userId requests handled in one run.
MaxUserUpdates == 1

\* fetchUserCityAccess calls made in one run, and calls in flight.
MaxCityLookups == 3

NumCitySlots == 2

CitySlots == 1..NumCitySlots

\* The rows of the user before any request: the users row, and the user's
\* rows of user_roles, user_permissions (permission, city), user_city_access
\* and user_zone_access; permissions is the ids of the permissions table.
SeededUser ==
    [name |-> "old", role |-> "supervisor", password_hash |-> "old",
     user_roles |-> {1}, user_permissions |-> {<<1, Null>>},
     user_city_access |-> {2}, user_zone_access |-> {1},
     permissions |-> PermissionIds]

\* The cities of the wards assigned to the user as a supervisor.
AssignedCities == {7}

\* A request body: password and name absent ("") or given; roles,
\* allowedCities and allowedZones no array or an array of ids; permissions
\* no array, an array of {permissionId, cityId}, or an array with one
\* {module, action} of no permission yet in the table.
IdArrays(S) == {NoArray} \cup {[isArray |-> TRUE, ids |-> ids] : ids \in S}

UserBodies ==
    [password : {""}, name : {"", "new"},
     roles : IdArrays({{2}}),
     permissions : IdArrays({{<<NoSuchPermission, Null>>}}),
     allowedCities : IdArrays({{}, {5}}),
     allowedZones : IdArrays({{3}})]
    \cup {[password |-> "new", name |-> "", roles |-> [isArray |-> TRUE, ids |-> {}],
           permissions |-> [isArray |-> TRUE, ids |-> {<<2, 5>>}],
           allowedCities |-> NoArray, allowedZones |-> NoArray]}

NoBody ==
    [password |-> "", name |-> "", roles |-> NoArray, permissions |-> NoArray,
     allowedCities |-> NoArray, allowedZones |-> NoArray]

\* The request being handled: its body, the rows as its transaction sees
\* them (work), the committed rows when it was received (before), whether
\* a statement has failed, its response.
NoTx ==
    [pc |-> "idle", body |-> NoBody, work |-> SeededUser, before |-> SeededUser,
     failed |-> FALSE, status |-> 0, updates |-> 0]

\* A fetchUserCityAccess call: its cache key, the ids it returns, and how
\* many city-access updates had committed when it was made.
IdleCityLookup == [pc |-> "idle", cacheKey |-> <<0, 0>>, ids |-> {}, madeAfter |-> 0]

\* cityAccessVersion, cityAccessCache (its keys with their payloads), the
\* calls in flight, and the user_city_access rows each committed update
\* of the city access left, the seeded rows first.
NoCityCache ==
    [cityAccessVersion |-> 0, cityAccessCache |-> {},
     lookup |-> [s \in CitySlots |-> IdleCityLookup], lookups |-> 0,
     committed |-> <<SeededUser.user_city_access>>]

\* buildCacheKey(userId) of userCityAccess.
cityCacheKey(userId) == <<userId, cityCache.cityAccessVersion>>

\* invalidateCityAccessCache()
invalidateCityAccessCache(c) ==
    [c EXCEPT !.cityAccessVersion = @ + 1, !.cityAccessCache = {}]

\* The client a sync function is handed by a caller that passes none: the pool.
defaultClient(client) == "pool"

\* The client the handler hands to syncUserRoles, syncUserPermissions,
\* syncUserCityAccess and syncUserZoneAccess: the transaction's.
passedClient(client) == client

\* UPDATE users SET password_hash, and UPDATE users SET name ..., role:
\* the rows after them.
updateUsersRow(t, body) ==
    [t EXCEPT !.password_hash = IF body.password # "" THEN "hashed" ELSE @,
              !.name = IF body.name # "" THEN body.name ELSE @,
              !.role = IF body.roles.isArray /\ body.roles.ids # {} THEN "custom" ELSE @]

\* syncUserRoles: DELETE FROM user_roles, INSERT INTO user_roles.
syncUserRoles(t, roles) == [t EXCEPT !.user_roles = roles]

\* upsertPermission for the {module, action} entries of the body: the
\* permissions table after it.
upsertPermissions(t, permissions) ==
    [t EXCEPT !.permissions = @ \cup {perm[1] : perm \in permissions}]

\* syncUserPermissions: DELETE FROM user_permissions, INSERT INTO user_permissions.
syncUserPermissions(t, permissions) == [t EXCEPT !.user_permissions = permissions]

\* syncUserCityAccess: DELETE FROM user_city_access, INSERT INTO user_city_access.
syncUserCityAccess(t, ids) == [t EXCEPT !.user_city_access = ids]

\* syncUserZoneAccess: DELETE FROM user_zone_access, INSERT INTO user_zone_access.
syncUserZoneAccess(t, ids) == [t EXCEPT !.user_zone_access = ids]

\* Statements whose effect on the rows is change(rows) are made on
\* `client`: on the transaction's client they change what the transaction
\* sees, on the pool they are committed as they are made.
Statements(client, next, change(_)) ==
    /\ tx' = [tx EXCEPT !.work = change(@), !.pc = next]
    /\ users' = IF client = "pool" THEN change(users) ELSE users

\* A statement throws: withTransaction's catch is next.
Thrown ==
    /\ tx' = [tx EXCEPT !.pc = "rollback", !.failed = TRUE]
    /\ users' = users

\* PUT /users/:userId is received.
TxReceive ==
    /\ tx.pc \in {"idle", "done"}
    /\ tx.updates < MaxUserUpdates
    /\ \E body \in UserBodies :
          tx' = [NoTx EXCEPT !.pc = "begin", !.body = body, !.work = users,
                             !.before = users, !.updates = tx.updates + 1]
    /\ UNCHANGED <<attendanceVars, accessVars, face, rbac, users, cityCache, schema, csv>>

\* withTransaction: pool.connect(), which rejects before the try block,
\* and BEGIN.
TxBegin ==
    /\ tx.pc = "begin"
    /\ \/ tx' = [tx EXCEPT !.pc = "done", !.failed = TRUE, !.status = 500]
       \/ tx' = [tx EXCEPT !.pc = "rollback", !.failed = TRUE]
       \/ tx' = [tx EXCEPT !.pc = "users", !.work = users]
    /\ UNCHANGED <<attendanceVars, accessVars, face, rbac, users, cityCache, schema, csv>>

\* The UPDATEs of the users row, made on the transaction's client.
TxUsers ==
    /\ tx.pc = "users"
    /\ \/ Thrown
       \/ Statements("client", "roles", LAMBDA t : updateUsersRow(t, tx.body))
    /\ UNCHANGED <<attendanceVars, accessVars, face, rbac, cityCache, schema, csv>>

\* syncUserRoles(userId, roles, actor, client) when roles is an array.
TxRoles ==
    /\ tx.pc = "roles"
    /\ IF ~tx.body.roles.isArray
       THEN tx' = [tx EXCEPT !.pc = "permissions"] /\ users' = users
       ELSE \/ Thrown
            \/ Statements(passedClient("client"), "permissions",
                          LAMBDA t : syncUserRoles(t, tx.body.roles.ids))
    /\ UNCHANGED <<attendanceVars, accessVars, face, rbac, cityCache, schema, csv>>

\* normalizePermissionAssignments, whose upsertPermission runs on the
\* pool, and syncUserPermissions(userId, permissions, actor, client), when
\* permissions is an array.
TxPermissions ==
    /\ tx.pc = "permissions"
    /\ IF ~tx.body.permissions.isArray
       THEN tx' = [tx EXCEPT !.pc = "cities"] /\ users' = users
       ELSE \/ Thrown
            \/ /\ tx' = [tx EXCEPT !.pc = "rollback", !.failed = TRUE,
                                   !.work = upsertPermissions(@, tx.body.permissions.ids)]
               /\ users' = upsertPermissions(users, tx.body.permissions.ids)
            \/ /\ tx' = [tx EXCEPT !.pc = "cities",
                            !.work = syncUserPermissions(
                                        upsertPermissions(@, tx.body.permissions.ids),
                                        tx.body.permissions.ids)]
               /\ users' =
                    IF passedClient("client") = "pool"
                    THEN syncUserPermissions(
                            upsertPermissions(users, tx.body.permissions.ids),
                            tx.body.permissions.ids)
                    ELSE upsertPermissions(users, tx.body.permissions.ids)
    /\ UNCHANGED <<attendanceVars, accessVars, face, rbac, cityCache, schema, csv>>

\* syncUserCityAccess(userId, allowedCities, actor, client) when
\* allowedCities is an array: its statements, then invalidateCityAccessCache().
TxCities ==
    /\ tx.pc = "cities"
    /\ IF ~tx.body.allowedCities.isArray
       THEN tx' = [tx EXCEPT !.pc = "zones"] /\ UNCHANGED <<users, cityCache>>
       ELSE \/ Thrown /\ cityCache' = cityCache
            \/ /\ Statements(passedClient("client"), "zones",
                             LAMBDA t : syncUserCityAccess(t, tx.body.allowedCities.ids))
               /\ cityCache' = invalidateCityAccessCache(cityCache)
    /\ UNCHANGED <<attendanceVars, accessVars, face, rbac, schema, csv>>

\* syncUserZoneAccess(userId, allowedZones, actor, client) when
\* allowedZones is an array.
TxZones ==
    /\ tx.pc = "zones"
    /\ IF ~tx.body.allowedZones.isArray
       THEN tx' = [tx EXCEPT !.pc = "commit"] /\ users' = users
       ELSE \/ Thrown
            \/ Statements(passedClient("client"), "commit",
                          LAMBDA t : syncUserZoneAccess(t, tx.body.allowedZones.ids))
    /\ UNCHANGED <<attendanceVars, accessVars, face, rbac, cityCache, schema, csv>>

\* withTransaction: COMMIT; what the transaction saw becomes the
\* committed rows, or the COMMIT throws.
TxCommit ==
    /\ tx.pc = "commit"
    /\ \/ Thrown /\ cityCache' = cityCache
       \/ /\ users' = tx.work
          /\ tx' = [tx EXCEPT !.pc = "respond"]
          /\ cityCache' =
                IF tx.body.allowedCities.isArray
                THEN [cityCache EXCEPT !.committed = Append(@, tx.work.user_city_access)]
                ELSE cityCache
    /\ UNCHANGED <<attendanceVars, accessVars, face, rbac, schema, csv>>

\* withTransaction's catch: ROLLBACK and the error thrown on to the
\* route's catch, which answers 500.
TxRollback ==
    /\ tx.pc = "rollback"
    /\ tx' = [tx EXCEPT !.pc = "done", !.status = 500]
    /\ UNCHANGED <<attendanceVars, accessVars, face, rbac, users, cityCache, schema, csv>>

\* After the transaction: invalidatePermissionCache() and the response.
TxRespond ==
    /\ tx.pc = "respond"
    /\ tx' = [tx EXCEPT !.pc = "done", !.status = 200]
    /\ invalidatePermissionCache
    /\ UNCHANGED <<attendanceVars, db, lookup, writer, history, http, call,
                   face, rbac, users, cityCache, schema, csv>>

\* cityAccessCache.set(cacheKey, payload)
cacheSet(c, cacheKey, ids) ==
    [c EXCEPT !.cityAccessCache =
        {e \in @ : e.cacheKey # cacheKey} \cup {[cacheKey |-> cacheKey, ids |-> ids]}]

\* fetchUserCityAccess(user) for the user, with the default options: the
\* cache key, and the cached payload when the cache has the key.
CityLookupStart(s) ==
    /\ cityCache.lookup[s].pc \in {"idle", "done"}
    /\ cityCache.lookups < MaxCityLookups
    /\ LET cacheKey == cityCacheKey(1)
           hits     == {e \in cityCache.cityAccessCache : e.cacheKey = cacheKey}
           call0    == [IdleCityLookup EXCEPT !.cacheKey = cacheKey,
                                             !.madeAfter = Len(cityCache.committed)]
       IN  cityCache' =
              [cityCache EXCEPT
                  !.lookups = @ + 1,
                  !.lookup[s] =
                      IF hits = {} THEN [call0 EXCEPT !.pc = "query"]
                      ELSE [call0 EXCEPT !.pc = "done",
                                         !.ids = (CHOOSE e \in hits : TRUE).ids]]
    /\ UNCHANGED <<attendanceVars, accessVars, face, rbac, users, tx, schema, csv>>

\* fetchUserCityAccess: SELECT city_id FROM user_city_access on the pool;
\* ids found are cached under the call's key and returned, none leads to
\* the assignments.
CityLookupQuery(s) ==
    /\ cityCache.lookup[s].pc = "query"
    /\ LET ids == users.user_city_access
       IN  cityCache' =
              IF ids = {}
              THEN [cityCache EXCEPT !.lookup[s].pc = "fallback"]
              ELSE [cacheSet(cityCache, cityCache.lookup[s].cacheKey, ids)
                       EXCEPT !.lookup[s].pc = "done", !.lookup[s].ids = ids]
    /\ UNCHANGED <<attendanceVars, accessVars, face, rbac, users, tx, schema, csv>>

\* fetchUserCityAccess: fetchCitiesFromAssignments, then the cache and
\* the return.
CityLookupFallback(s) ==
    /\ cityCache.lookup[s].pc = "fallback"
    /\ cityCache' =
          [cacheSet(cityCache, cityCache.lookup[s].cacheKey, AssignedCities)
              EXCEPT !.lookup[s].pc = "done", !.lookup[s].ids = AssignedCities]
    /\ UNCHANGED <<attendanceVars, accessVars, face, rbac, users, tx, schema, csv>>

-----------------------------------------------------------------------------
(* rbacSetup: ensureRbacSchema and runSchemaSetup in one process.           *)

\* Calls of ensureRbacSchema in one run.
MaxSchemaCalls == 3

\* What the statements of runSchemaSetup install, in their order: the
\* tables, indexes and constraints, the system roles, the base
\* permissions with the admin role's grants.
SchemaStatements == <<"tables", "roles", "permissions">>

\* A setup run: its position, and what its transaction has installed.
NewRun == [pc |-> "connect", done |-> 0, work |-> {}]

\* schemaPromise (Null, or the run whose promise it holds), the runs
\* started, what is committed in the database, the calls made and the
\* runs that completed.
NoSchema ==
    [schemaPromise |-> Null, runs |-> << >>, installed |-> {}, calls |-> 0,
     completed |-> 0]

\* ensureRbacSchema called with the check of schemaPromise left out.
needsSetupAlways(schemaPromise) == TRUE

\* if (!schemaPromise)
needsSetup(schemaPromise) == schemaPromise = Null

\* ensureRbacSchema(): a run is started when there is no promise; the
\* promise is returned.
EnsureRbacSchema ==
    /\ schema.calls < MaxSchemaCalls
    /\ schema' =
          IF needsSetup(schema.schemaPromise)
          THEN [schema EXCEPT !.calls = @ + 1,
                              !.runs = Append(@, [NewRun EXCEPT !.work = schema.installed]),
                              !.schemaPromise = Len(schema.runs) + 1]
          ELSE [schema EXCEPT !.calls = @ + 1]
    /\ UNCHANGED <<attendanceVars, accessVars, face, rbac, users, tx, cityCache, csv>>

\* .catch((error) => { schemaPromise = null; throw error }) of run i.
rejected(s, i) == [s EXCEPT !.runs[i].pc = "rejected", !.schemaPromise = Null]

\* runSchemaSetup: pool.connect(), which rejects before the try block,
\* and BEGIN.
SchemaBegin(i) ==
    /\ schema.runs[i].pc = "connect"
    /\ \/ schema' = rejected(schema, i)
       \/ schema' = [schema EXCEPT !.runs[i].pc = "rollback"]
       \/ schema' = [schema EXCEPT !.runs[i].pc = "statements",
                                   !.runs[i].work = schema.installed]
    /\ UNCHANGED <<attendanceVars, accessVars, face, rbac, users, tx, cityCache, csv>>

\* runSchemaSetup: the next statement on the transaction's client, which
\* installs its part or throws.
SchemaStatement(i) ==
    /\ schema.runs[i].pc = "statements"
    /\ schema.runs[i].done < Len(SchemaStatements)
    /\ \/ schema' = [schema EXCEPT !.runs[i].pc = "rollback"]
       \/ schema' = [schema EXCEPT
                        !.runs[i].done = @ + 1,
                        !.runs[i].work = @ \cup {SchemaStatements[schema.runs[i].done + 1]}]
    /\ UNCHANGED <<attendanceVars, accessVars, face, rbac, users, tx, cityCache, csv>>

\* runSchemaSetup: COMMIT, which commits what the run installed or throws;
\* the promise of a committed run is fulfilled.
SchemaCommit(i) ==
    /\ schema.runs[i].pc = "statements"
    /\ schema.runs[i].done = Len(SchemaStatements)
    /\ \/ schema' = [schema EXCEPT !.runs[i].pc = "rollback"]
       \/ schema' = [schema EXCEPT !.runs[i].pc = "fulfilled",
                                   !.installed = schema.runs[i].work,
                                   !.completed = @ + 1]
    /\ UNCHANGED <<attendanceVars, accessVars, face, rbac, users, tx, cityCache, csv>>

\* runSchemaSetup's catch: ROLLBACK and the error thrown on; the promise
\* is rejected and ensureRbacSchema's catch resets schemaPromise.
SchemaRollback(i) ==
    /\ schema.runs[i].pc = "rollback"
    /\ schema' = rejected(schema, i)
    /\ UNCHANGED <<attendanceVars, accessVars, face, rbac, users, tx, cityCache, csv>>

-----------------------------------------------------------------------------
(* attendanceReportDownload: csvEscapeValue and buildCsvDocument, and a     *)
(* reader of RFC-4180 CSV.  A text is the sequence of its characters.       *)

\* Characters of a field and cells of a document.
MaxFieldLen == 2
MaxCells == 2

Quote == "\""
Comma == ","
LF == "\n"
CR == "\r"
Letter == "a"
CsvAlphabet == {Letter, Quote, Comma, LF, CR}

Texts == UNION {[1..k -> CsvAlphabet] : k \in 0..MaxFieldLen}

\* null as the value of a field.
NullField == <<"null">>
FieldValues == Texts \cup {NullField}

\* Header descriptors as the groupings declare them, { key, label }.
HeaderDescriptors ==
    {[key |-> <<"n">>, label |-> <<Letter>>],
     [key |-> <<"w">>, label |-> <<Quote, Comma>>]}

HeaderLists == UNION {[1..k -> HeaderDescriptors] : k \in 1..MaxCells}

RowLists(headers) ==
    UNION {[1..k -> [{headers[j].key : j \in 1..Len(headers)} -> FieldValues]] :
             k \in {n \in 0..MaxCells : n * Len(headers) <= MaxCells}}

NoCsv ==
    [stage |-> "idle", headers |-> << >>, rows |-> << >>, document |-> << >>,
     parsed |-> << >>]

\* stringValue.replace(/"/g, '""')
RECURSIVE doubleQuotes(_)
doubleQuotes(text) ==
    IF text = << >> THEN << >>
    ELSE (IF Head(text) = Quote THEN <<Quote, Quote>> ELSE <<Head(text)>>)
            \o doubleQuotes(Tail(text))

\* csvEscapeValue with the quotes of the value left as they are.
csvEscapeValueUndoubled(value) ==
    IF value = NullField THEN <<Quote, Quote>>
    ELSE <<Quote>> \o value \o <<Quote>>

\* csvEscapeValue(value)
csvEscapeValue(value) ==
    IF value = NullField THEN <<Quote, Quote>>
    ELSE <<Quote>> \o doubleQuotes(value) \o <<Quote>>

\* Array.prototype.join
RECURSIVE join(_, _)
join(parts, separator) ==
    IF parts = << >> THEN << >>
    ELSE IF Len(parts) = 1 THEN parts[1]
    ELSE parts[1] \o separator \o join(Tail(parts), separator)

\* header.label || header.key
labelOrKey(header) == IF header.label # << >> THEN header.label ELSE header.key

\* rawValue ?? ""
orEmpty(rawValue) == IF rawValue = NullField THEN << >> ELSE rawValue

\* buildCsvDocument(rows, headers), for headers without a formatter.
buildCsvDocument(rows, headers) ==
    LET headerLine ==
            join([j \in 1..Len(headers) |-> csvEscapeValue(labelOrKey(headers[j]))],
                 <<Comma>>)
        dataLines ==
            [i \in 1..Len(rows) |->
                join([j \in 1..Len(headers) |->
                         csvEscapeValue(orEmpty(rows[i][headers[j].key]))],
                     <<Comma>>)]
    IN  IF rows = << >> THEN headerLine \o <<LF>>
        ELSE join(<<headerLine>> \o dataLines, <<LF>>)

\* The reader: its position in a record and what it has read.
Malformed == << << <<"malformed">> >> >>
ReaderStart ==
    [mode |-> "start", records |-> << >>, record |-> << >>, field |-> << >>,
     open |-> FALSE]

endField(p) ==
    [p EXCEPT !.record = Append(@, p.field), !.field = << >>, !.mode = "start",
              !.open = TRUE]

endRecord(p) ==
    [p EXCEPT !.records = Append(@, Append(p.record, p.field)), !.record = << >>,
              !.field = << >>, !.mode = "start", !.open = FALSE]

\* One character read: a quoted field runs to its closing quote, a
\* doubled quote in it stands for one quote, a comma ends a field and LF
\* or CRLF outside quotes ends a record.
readCharacter(p, c) ==
    CASE p.mode = "start" ->
            IF c = Quote THEN [p EXCEPT !.mode = "quoted", !.open = TRUE]
            ELSE IF c = Comma THEN endField(p)
            ELSE IF c = LF THEN endRecord(p)
            ELSE IF c = CR THEN [p EXCEPT !.mode = "cr"]
            ELSE [p EXCEPT !.mode = "unquoted", !.field = <<c>>, !.open = TRUE]
      [] p.mode = "quoted" ->
            IF c = Quote THEN [p EXCEPT !.mode = "quote"]
            ELSE [p EXCEPT !.field = Append(@, c)]
      [] p.mode = "quote" ->
            IF c = Quote THEN [p EXCEPT !.mode = "quoted", !.field = Append(@, Quote)]
            ELSE IF c = Comma THEN endField(p)
            ELSE IF c = LF THEN endRecord(p)
            ELSE IF c = CR THEN [p EXCEPT !.mode = "cr"]
            ELSE [p EXCEPT !.mode = "malformed"]
      [] p.mode = "unquoted" ->
            IF c = Comma THEN endField(p)
            ELSE IF c = LF THEN endRecord(p)
            ELSE IF c = CR THEN [p EXCEPT !.mode = "cr"]
            ELSE IF c = Quote THEN [p EXCEPT !.mode = "malformed"]
            ELSE [p EXCEPT !.field = Append(@, c)]
      [] p.mode = "cr" ->
            IF c = LF THEN endRecord(p) ELSE [p EXCEPT !.mode = "malformed"]
      [] OTHER -> p

\* The end of the document: the last record needs no line break.
readEnd(p) ==
    IF p.mode \in {"quoted", "cr", "malformed"} THEN Malformed
    ELSE IF p.mode = "start" /\ ~p.open THEN p.records
    ELSE endRecord(p).records

RECURSIVE readFrom(_, _, _)
readFrom(document, i, p) ==
    IF i > Len(document) THEN readEnd(p)
    ELSE readFrom(document, i + 1, readCharacter(p, document[i]))

parseCsv(document) == readFrom(document, 1, ReaderStart)

\* The download handler renders the rows of the report.
BuildCsv ==
    /\ csv.stage = "rows"
    /\ csv' = [csv EXCEPT !.stage = "document",
                          !.document = buildCsvDocument(csv.rows, csv.headers)]
    /\ UNCHANGED <<attendanceVars, accessVars, face, rbac, users, tx, cityCache, schema>>

\* A consumer reads the document.
ParseCsv ==
    /\ csv.stage = "document"
    /\ csv' = [csv EXCEPT !.stage = "parsed", !.parsed = parseCsv(csv.document)]
    /\ UNCHANGED <<attendanceVars, accessVars, face, rbac, users, tx, cityCache, schema>>

-----------------------------------------------------------------------------
(* Specifications *)

\* The instants formatDate is probed at: days after a month's, a leap
\* February's and a year's end, at the seconds around midnight, 04:00,
\* 05:00 and 23:00 local time.
ProbeDays ==
    { <<2023, 6, 15>>, <<2023, 3, 1>>, <<2024, 3, 1>>, <<2024, 2, 29>>,
      <<2024, 1, 1>>, <<2023, 12, 31>>, <<2000, 3, 1>>, <<2037, 1, 1>>, <<2023, 5, 31>> }

ProbeTimes ==
    { <<0, 0, 0>>, <<0, 59, 59>>, <<3, 59, 59>>, <<4, 0, 0>>, <<4, 59, 59>>,
      <<5, 0, 0>>, <<12, 0, 0>>, <<22, 59, 59>>, <<23, 0, 0>>, <<23, 59, 59>> }

\* NIGHT_SHIFT_ROLLOVER_HOUR as found in the environment: unset, a number,
\* a text that is no number.
EnvInputs ==
    { EnvUnset, [kind |-> "text", value |-> 0] }
      \cup {[kind |-> "number", value |-> n] : n \in {0, 5, 23, 24}}

NoProbe == [stage |-> 0, day |-> <<0, 0, 0>>, time |-> <<0, 0, 0>>,
            first |-> NoDate, second |-> NoDate]

ProbeInstant ==
    LocalInstant(probe.day[1], probe.day[2], probe.day[3],
                 probe.time[1], probe.time[2], probe.time[3])

\* formatDate(date) is called for the probed instant.
FormatDateCall ==
    /\ probe.stage = 0
    /\ probe' = [probe EXCEPT !.stage = 1,
                              !.first = formatDate(ProbeInstant, Now, RolloverHour)]
    /\ UNCHANGED <<attendance, clock, req, started, last, env, accessVars, extraVars>>

\* formatDate(date) is called again for the same instant.
FormatDateAgain ==
    /\ probe.stage = 1
    /\ probe' = [probe EXCEPT !.stage = 2,
                              !.second = formatDate(ProbeInstant, Now, RolloverHour)]
    /\ UNCHANGED <<attendance, clock, req, started, last, env, accessVars, extraVars>>

\* No face-attendance request, no role, no user update, no schema setup,
\* no document.
ExtraIdle ==
    /\ face = NoFace
    /\ rbac = NoRbac
    /\ users = SeededUser
    /\ tx = NoTx
    /\ cityCache = NoCityCache
    /\ schema = NoSchema
    /\ csv = NoCsv

\* No request on the attendance routes, an empty attendance table.
AttendanceIdle ==
    /\ attendance = << >>
    /\ clock = 1
    /\ req = [p \in Slots |-> IdleReq]
    /\ started = 0
    /\ last = NoResponse
    /\ env = EnvUnset
    /\ probe = NoProbe

Init ==
    /\ attendance = << >>
    /\ clock = 1
    /\ req = [p \in Slots |-> IdleReq]
    /\ started = 0
    /\ last = NoResponse
    /\ env = EnvUnset
    /\ probe = NoProbe
    /\ AccessIdle
    /\ ExtraIdle

\* Requests of every kind, handled concurrently.
Next ==
    \/ \E p \in Slots : PostStart(p)
    \/ \E p \in Slots : FaceStart(p, FacePunchTypes)
    \/ \E p \in Slots : PutStart(p, PutPunchTypes)
    \/ \E p \in Slots : PutSelect(p)
    \/ \E p \in Slots : Fetch(p)
    \/ \E p \in Slots : Carry(p)
    \/ \E p \in Slots : Insert(p)
    \/ \E p \in Slots : Update(p)
    \/ Tick

Spec == Init /\ [][Next]_vars

\* Requests handled one after another: a request is received only when
\* none is in flight.
Solo(p) == \A q \in Slots \ {p} : req[q].pc = "idle"

NextSeq ==
    \/ \E p \in Slots : Solo(p) /\ PostStart(p)
    \/ \E p \in Slots : Solo(p) /\ FaceStart(p, FacePunchTypes)
    \/ \E p \in Slots : Solo(p) /\ PutStart(p, PutPunchTypes)
    \/ \E p \in Slots : Solo(p) /\ PutSelect(p)
    \/ \E p \in Slots : Solo(p) /\ Fetch(p)
    \/ \E p \in Slots : Solo(p) /\ Carry(p)
    \/ \E p \in Slots : Solo(p) /\ Insert(p)
    \/ \E p \in Slots : Solo(p) /\ Update(p)
    \/ Tick

SpecSeq == Init /\ [][NextSeq]_vars

\* Concurrent requests whose punch_type is IN or OUT.
PunchTypes == {"IN", "OUT"}

NextPunch ==
    \/ \E p \in Slots : PostStart(p)
    \/ \E p \in Slots : FaceStart(p, PunchTypes)
    \/ \E p \in Slots : PutStart(p, PunchTypes)
    \/ \E p \in Slots : PutSelect(p)
    \/ \E p \in Slots : Fetch(p)
    \/ \E p \in Slots : Carry(p)
    \/ \E p \in Slots : Insert(p)
    \/ \E p \in Slots : Update(p)
    \/ Tick

SpecPunch == Init /\ [][NextPunch]_vars

\* formatDate alone, on the probed instants, under every environment.
InitDate ==
    /\ attendance = << >>
    /\ clock = 1
    /\ req = [p \in Slots |-> IdleReq]
    /\ started = 0
    /\ last = NoResponse
    /\ env \in EnvInputs
    /\ \E d \in ProbeDays, t \in ProbeTimes :
          probe = [NoProbe EXCEPT !.day = d, !.time = t]
    /\ AccessIdle
    /\ ExtraIdle

NextDate == FormatDateCall \/ FormatDateAgain

SpecDate == InitDate /\ [][NextDate]_vars

\* fetchUserPermissions alone, over the tables a user's grants can be in.
MaxGrants == 2

AtMost(S, n) == {T \in SUBSET S : Cardinality(T) <= n}

\* PRIMARY KEY (user_id, permission_id) of user_permissions.
UserPermissionTables(S) ==
    {up \in AtMost(S, MaxGrants) :
        \A x, y \in up : (x[1] = y[1] /\ x[2] = y[2]) => x = y}

PermDbs ==
    {[user_roles |-> ur, role_permissions |-> rp, user_permissions |-> up,
      user_city_access |-> {}] :
        ur \in SUBSET ({1} \X RoleIds),
        rp \in AtMost(RoleIds \X PermissionIds, MaxGrants),
        up \in UserPermissionTables({1} \X PermissionIds \X {Null, 2, 5})}

InitPerm ==
    /\ AttendanceIdle
    /\ ExtraIdle
    /\ db \in PermDbs
    /\ cacheVersion = 0
    /\ permissionCache = << >>
    /\ lookup = [s \in LookupSlots |-> IdleLookup]
    /\ writer = IdleWriter
    /\ history = NoHistory
    /\ http = NoRequest
    /\ call = NoCall

\* No other lookup is awaiting its query.
Alone(s) == \A t \in LookupSlots \ {s} : lookup[t].pc \in {"idle", "done"}

\* Lookups one after another.
NextPerm ==
    \/ \E s \in LookupSlots : Alone(s) /\ LookupStart(s)
    \/ \E s \in LookupSlots : LookupQuery(s)
    \/ \E s \in LookupSlots : LookupStore(s)

SpecPerm == InitPerm /\ [][NextPerm]_vars

\* Guarded requests one after another, over the tables a user's grants
\* and city access can be in.
ScopeDbs ==
    {[user_roles |-> ur, role_permissions |-> rp, user_permissions |-> up,
      user_city_access |-> uca] :
        ur \in SUBSET {<<1, 1>>},
        rp \in AtMost({1} \X {1, 2}, 1),
        up \in UserPermissionTables({1} \X {1, 3} \X {Null, 2, 5}),
        uca \in {{}, {<<1, 2>>, <<1, 5>>}}}

InitScope ==
    /\ AttendanceIdle
    /\ ExtraIdle
    /\ db \in ScopeDbs
    /\ cacheVersion = 0
    /\ permissionCache = << >>
    /\ lookup = [s \in LookupSlots |-> IdleLookup]
    /\ writer = IdleWriter
    /\ history = NoHistory
    /\ http = NoRequest
    /\ call = NoCall

NextScope ==
    \/ HttpReceive
    \/ AuthorizeCall
    \/ AuthorizeCheck
    \/ AttachCall
    \/ AttachDone
    \/ RequireScope
    \/ HttpHandler
    \/ \E s \in LookupSlots : LookupQuery(s)
    \/ \E s \in LookupSlots : LookupStore(s)

SpecScope == InitScope /\ [][NextScope]_vars

\* Lookups of user 1 concurrent with each other and with requests that
\* write grants, user 1 being in role 1.
CacheDbs ==
    {[user_roles |-> {<<1, 1>>}, role_permissions |-> {<<1, 1>>},
      user_permissions |-> {<<1, 2, 2>>}, user_city_access |-> {}]}

InitCache ==
    /\ AttendanceIdle
    /\ ExtraIdle
    /\ db \in CacheDbs
    /\ cacheVersion = 0
    /\ permissionCache = << >>
    /\ lookup = [s \in LookupSlots |-> IdleLookup]
    /\ writer = IdleWriter
    /\ history = [NoHistory EXCEPT !.snaps = <<db>>]
    /\ http = NoRequest
    /\ call = NoCall

NextCache ==
    \/ \E s \in LookupSlots : LookupStart(s)
    \/ \E s \in LookupSlots : LookupQuery(s)
    \/ \E s \in LookupSlots : LookupStore(s)
    \/ RoleWriteReceive
    \/ RoleWriteDelete
    \/ RoleWriteInsert
    \/ UserWriteReceive
    \/ UserWriteTransaction
    \/ WriteRespond
    \/ WriteFail

SpecCache == InitCache /\ [][NextCache]_vars

\* The builders alone: queries with every parameter absent, or every
\* parameter "12" or "0", and two parameters of any raw value; the scopes
\* undefined, 'all', empty, and of one and two cities.
BaseQueries == {[f \in QueryFields |-> v] : v \in {"", "12", "0"}}

QueryInputs ==
    {[f \in QueryFields |-> IF f = f1 THEN v1 ELSE IF f = f2 THEN v2 ELSE base[f]] :
        base \in BaseQueries, f1 \in QueryFields, f2 \in QueryFields,
        v1 \in RawValues, v2 \in RawValues}

ScopeInputs ==
    {UndefinedScope, [defined |-> TRUE, all |-> TRUE, ids |-> {}],
     [defined |-> TRUE, all |-> FALSE, ids |-> {}],
     [defined |-> TRUE, all |-> FALSE, ids |-> {2}],
     [defined |-> TRUE, all |-> FALSE, ids |-> {2, 5}]}

Groupings == {"detail", "supervisor_summary"}

InitFilter ==
    /\ AttendanceIdle
    /\ ExtraIdle
    /\ db = EmptyDb
    /\ cacheVersion = 0
    /\ permissionCache = << >>
    /\ lookup = [s \in LookupSlots |-> IdleLookup]
    /\ writer = IdleWriter
    /\ history = NoHistory
    /\ http = NoRequest
    /\ \E grouping \in Groupings, query \in QueryInputs, cityScope \in ScopeInputs :
          call = [NoCall EXCEPT !.grouping = grouping, !.query = query,
                                !.cityScope = cityScope]

NextFilter == BuildFilters

SpecFilter == InitFilter /\ [][NextFilter]_vars

\* One face-attendance request, single or group, with the bucket set or
\* unset and every set of enrolled employees, on a table where nobody,
\* employee 1, or both employees have punched in on the request's date.
PunchedInRow(emp_id) ==
    [NewRow(emp_id, ParseDate(formatDate(Timeline[1], Timeline[1], DefaultRolloverHour)),
            employeeWard(emp_id))
        EXCEPT !.punch_in_time = Timeline[1]]

FaceTables == { << >>, <<PunchedInRow(1)>>, <<PunchedInRow(1), PunchedInRow(2)>> }

InitFace ==
    /\ attendance \in FaceTables
    /\ clock = 1
    /\ req = [p \in Slots |-> IdleReq]
    /\ started = 0
    /\ last = NoResponse
    /\ env = EnvUnset
    /\ probe = NoProbe
    /\ AccessIdle
    /\ \E bucket \in BOOLEAN, enrolled \in SUBSET EmployeeIds :
          face = [NoFace EXCEPT !.bucket = bucket, !.enrolled = enrolled]
    /\ rbac = NoRbac
    /\ users = SeededUser
    /\ tx = NoTx
    /\ cityCache = NoCityCache
    /\ schema = NoSchema
    /\ csv = NoCsv

NextFace ==
    \/ FaceReceive
    \/ GroupCrop
    \/ FaceSearch
    \/ FaceRecord
    \/ FaceUpload
    \/ FaceVerify
    \/ FaceUpdate
    \/ GroupRespond

SpecFace == InitFace /\ [][NextFace]_vars

\* Role requests one after another on the seeded roles.
InitRoles ==
    /\ AttendanceIdle
    /\ AccessIdle
    /\ face = NoFace
    /\ rbac = NoRbac
    /\ users = SeededUser
    /\ tx = NoTx
    /\ cityCache = NoCityCache
    /\ schema = NoSchema
    /\ csv = NoCsv

NextRoles ==
    \/ \E route \in {"post", "put", "delete"} : RoleRequest(route)
    \/ RolePost
    \/ RolePut
    \/ RoleDelete
    \/ RoleSyncDelete
    \/ RoleSyncInsert
    \/ RoleRespond

SpecRoles == InitRoles /\ [][NextRoles]_vars

\* Updates of the user one after another, with cached lookups of the
\* user's city access beside them.
InitUsers ==
    /\ AttendanceIdle
    /\ AccessIdle
    /\ face = NoFace
    /\ rbac = NoRbac
    /\ users = SeededUser
    /\ tx = NoTx
    /\ cityCache = NoCityCache
    /\ schema = NoSchema
    /\ csv = NoCsv

NextUsers ==
    \/ TxReceive
    \/ TxBegin
    \/ TxUsers
    \/ TxRoles
    \/ TxPermissions
    \/ TxCities
    \/ TxZones
    \/ TxCommit
    \/ TxRollback
    \/ TxRespond
    \/ \E s \in CitySlots : CityLookupStart(s)
    \/ \E s \in CitySlots : CityLookupQuery(s)
    \/ \E s \in CitySlots : CityLookupFallback(s)

SpecUsers == InitUsers /\ [][NextUsers]_vars

\* Calls of ensureRbacSchema beside the steps of the runs they start, on
\* a database with nothing installed.
InitSchema ==
    /\ AttendanceIdle
    /\ AccessIdle
    /\ face = NoFace
    /\ rbac = NoRbac
    /\ users = SeededUser
    /\ tx = NoTx
    /\ cityCache = NoCityCache
    /\ schema = NoSchema
    /\ csv = NoCsv

NextSchema ==
    \/ EnsureRbacSchema
    \/ \E i \in 1..Len(schema.runs) : SchemaBegin(i)
    \/ \E i \in 1..Len(schema.runs) : SchemaStatement(i)
    \/ \E i \in 1..Len(schema.runs) : SchemaCommit(i)
    \/ \E i \in 1..Len(schema.runs) : SchemaRollback(i)

SpecSchema == InitSchema /\ [][NextSchema]_vars

\* A report of a few rows rendered and read back.
InitCsv ==
    /\ AttendanceIdle
    /\ AccessIdle
    /\ face = NoFace
    /\ rbac = NoRbac
    /\ users = SeededUser
    /\ tx = NoTx
    /\ cityCache = NoCityCache
    /\ schema = NoSchema
    /\ \E headers \in HeaderLists : \E rows \in RowLists(headers) :
          csv = [NoCsv EXCEPT !.stage = "rows", !.headers = headers, !.rows = rows]

NextCsv ==
    \/ BuildCsv
    \/ ParseCsv

SpecCsv == InitCsv /\ [][NextCsv]_vars

-----------------------------------------------------------------------------
(* Properties *)

\* The states of an attendance row.
IsPunchedIn(row) == row.punch_in_time # Null /\ row.punch_out_time = Null

IsCompleted(row) == row.punch_in_time # Null /\ row.punch_out_time # Null

\* The rows of the table after the step.
RowIdsAfter == 1..Len(attendance')

\* The handler of slot p takes the step.
StepOf(p) == req'[p] # req[p]

\* The handler of slot p takes the step and answers with it.
Answers(p) == req[p].pc # "idle" /\ req'[p] = IdleReq

\* The logical date, as a day number, of the instant the request of slot p
\* was received at.
ReceivedDate(p) ==
    ParseDate(formatDate(Timeline[req[p].received], Now, RolloverHour))

\* C1: in every reachable state, whatever get-or-create, PUT and
\* face-attendance requests ran and however they interleaved, a row whose
\* punch_out_time is set has its punch_in_time set.
OutOnlyAfterIn ==
    \A i \in RowIds :
        attendance[i].punch_out_time # Null => attendance[i].punch_in_time # Null

\* C2: in every state reached by concurrent punch(IN) and punch(OUT)
\* requests, a row with both punch times has punch_out_time >= punch_in_time.
OutNotBeforeIn ==
    \A i \in RowIds :
        IsCompleted(attendance[i]) =>
            attendance[i].punch_out_time >= attendance[i].punch_in_time

\* C3: no step overwrites the punch-in stamp of a row: once punch_in_time is
\* set, punch_in_time, punch_in_image and punched_in_by stay as the first
\* punch(IN) wrote them, so a concurrent second punch(IN) stamps nothing.
InStampedOnce ==
    [][\A i \in RowIds :
          attendance[i].punch_in_time # Null =>
              /\ attendance'[i].punch_in_time = attendance[i].punch_in_time
              /\ attendance'[i].punch_in_image = attendance[i].punch_in_image
              /\ attendance'[i].punched_in_by = attendance[i].punched_in_by]_vars

\* C4: after every step there is at most one row per (emp_id, date); a step
\* of a get-or-create call changes no field of a row that exists and adds a
\* row only for a pair that has none; a call for an employee answers 200
\* with the attendance_id of the row of its (emp_id, date).
GetOrCreateIdempotent ==
    [][/\ \A i, j \in RowIdsAfter :
             (/\ attendance'[i].emp_id = attendance'[j].emp_id
              /\ attendance'[i].date = attendance'[j].date) => i = j
       /\ \A p \in Slots :
             (req[p].route = "create" /\ StepOf(p)) =>
                /\ Len(attendance') >= Len(attendance)
                /\ Len(attendance') <= Len(attendance) + 1
                /\ \A i \in RowIds : attendance'[i] = attendance[i]
                /\ Len(attendance') > Len(attendance) =>
                      ~ \E i \in RowIds :
                            /\ attendance[i].emp_id = req[p].emp_id
                            /\ attendance[i].date = ParseDate(req[p].date)
                /\ (Answers(p) /\ req[p].emp_id # Null) =>
                      /\ last'.status = 200
                      /\ last'.attendance_id \in RowIdsAfter
                      /\ attendance'[last'.attendance_id].emp_id = req[p].emp_id
                      /\ attendance'[last'.attendance_id].date = ParseDate(req[p].date)]_vars

\* C4's case: a get-or-create call has answered 200 with a row that is
\* punched in, while a second call for the same (emp_id, date), which found
\* no row when it looked, is about to INSERT.
GetOrCreateRaced ==
    /\ last.route = "create" /\ last.status = 200
    /\ last.attendance_id \in RowIds
    /\ attendance[last.attendance_id].punch_in_time # Null
    /\ \E p \in Slots :
          /\ req[p].route = "create" /\ req[p].pc = "insert"
          /\ attendance[last.attendance_id].emp_id = req[p].emp_id
          /\ attendance[last.attendance_id].date = ParseDate(req[p].date)

\* The request of slot p is a punch that is about to look at a row it may
\* not punch: IN on a row with punch_in_time, OUT on a Completed row.  For
\* PUT the row is the one of its attendance_id, for face-attendance the row
\* of the employee and target date.
Ineligible(row, punch_type) ==
    \/ punch_type = "IN" /\ row.punch_in_time # Null
    \/ punch_type = "OUT" /\ IsCompleted(row)

MeetsIneligibleRow(p) ==
    \/ /\ req[p].route = "put" /\ req[p].pc = "select"
       /\ req[p].attendance_id \in RowIds
       /\ Ineligible(attendance[req[p].attendance_id], req[p].punch_type)
    \/ /\ req[p].route = "face" /\ req[p].pc = "fetch"
       /\ \E i \in RowIds :
             /\ attendance[i].emp_id = req[p].emp_id
             /\ attendance[i].date = ParseDate(req[p].date)
             /\ Ineligible(attendance[i], req[p].punch_type)

NothingToClose(p) ==
    /\ req[p].route = "face" /\ req[p].punch_type = "OUT"
    /\ req[p].pc \in {"fetch", "carry", "insert"}
    /\ \A i \in RowIds :
          attendance[i].emp_id = req[p].emp_id =>
              /\ attendance[i].date # ParseDate(req[p].date)
              /\ ~ (/\ IsPunchedIn(attendance[i])
                    /\ attendance[i].date = ParseDate(req[p].date) - 1)

\* C6: a face-attendance punch(OUT) whose employee has no row for the target
\* date and no open row in the carry-forward window changes no row and
\* creates none, and its answer is 400 'Must punch in first'.
OutWithoutInRejected ==
    [][\A p \in Slots :
          (NothingToClose(p) /\ StepOf(p)) =>
              /\ attendance' = attendance
              /\ \/ req[p].pc = "fetch" /\ req'[p].pc = "carry"
                 \/ /\ Answers(p)
                    /\ last'.route = "face"
                    /\ last'.status = 400
                    /\ last'.error = "Must punch in first"]_vars

\* C6's case: a face-attendance request has been answered 400 'Must punch in
\* first' while the table holds rows of the other days or employees only:
\* here, none at all.
OutOnEmptyTableAnswered ==
    /\ last.route = "face" /\ last.status = 400
    /\ last.error = "Must punch in first"
    /\ attendance = << >>

\* The open rows of the employee of slot p dated the target date of its
\* request or the day before.
OpenInWindow(p) ==
    {i \in RowIds : /\ attendance[i].emp_id = req[p].emp_id
                    /\ IsPunchedIn(attendance[i])
                    /\ attendance[i].date \in {ParseDate(req[p].date) - 1,
                                               ParseDate(req[p].date)}}

ClosesWithinWindow ==
    [][\A p \in Slots :
          (req[p].pc = "update" /\ req[p].punch_type = "OUT" /\ StepOf(p)) =>
              \A i \in RowIds :
                  (IsPunchedIn(attendance[i]) /\ IsCompleted(attendance'[i])) =>
                      IF req[p].route = "put"
                      THEN /\ attendance[i].date >= ReceivedDate(p) - 1
                           /\ attendance[i].date
                                 <= ParseDate(formatDate(Now, Now, RolloverHour))
                      ELSE attendance[i].date \in {ParseDate(req[p].date) - 1,
                                                   ParseDate(req[p].date)}]_vars

\* The calendar, for reference.
IsLeap(y) == (y % 4 = 0 /\ y % 100 # 0) \/ y % 400 = 0

DaysInMonth(y, m) ==
    CASE m \in {1, 3, 5, 7, 8, 10, 12} -> 31
      [] m \in {4, 6, 9, 11} -> 30
      [] OTHER -> IF IsLeap(y) THEN 29 ELSE 28

PrevCalendarDate(y, m, d) ==
    IF d > 1 THEN [year |-> y, month |-> m, day |-> d - 1]
    ELSE IF m > 1 THEN [year |-> y, month |-> m - 1, day |-> DaysInMonth(y, m - 1)]
    ELSE [year |-> y - 1, month |-> 12, day |-> 31]

\* The date the probed local time belongs to: its calendar date, or the
\* date before it when its hour is less than the rollover hour.
ProbeExpected ==
    IF probe.time[1] < RolloverHour
    THEN PrevCalendarDate(probe.day[1], probe.day[2], probe.day[3])
    ELSE [year |-> probe.day[1], month |-> probe.day[2], day |-> probe.day[3]]

RowDatedByServerClock ==
    [][\A p \in Slots :
          (req[p].pc = "insert" /\ StepOf(p)
              /\ Len(attendance') > Len(attendance)) =>
              attendance'[Len(attendance')].date
                  \in {ReceivedDate(p),
                       ParseDate(formatDate(Now, Now, RolloverHour))}]_vars

\* C11: an integer 0..23 configured as the rollover hour is the effective
\* rollover hour, a missing, non-numeric or out-of-range value gives 4, and
\* with 0 configured formatDate gives the calendar date of every instant.
RolloverHourAsConfigured ==
    /\ (env.kind = "number" /\ env.value \in 0..23) => RolloverHour = env.value
    /\ (env.kind # "number" \/ env.value \notin 0..23) => RolloverHour = 4
    /\ (probe.stage >= 1 /\ env = [kind |-> "number", value |-> 0]) =>
          probe.first = [year |-> probe.day[1], month |-> probe.day[2],
                         day |-> probe.day[3]]

\* The keys a user is granted by a role or directly, and the rows that
\* contribute to a key, read from the tables.
GrantedByRole(d, userId, key) ==
    \E ur \in d.user_roles, rp \in d.role_permissions :
        /\ ur[1] = userId
        /\ ur[2] = rp[1]
        /\ permissionKey(Permissions[rp[2]].module, Permissions[rp[2]].action) = key

DirectGrants(d, userId, key) ==
    {up \in d.user_permissions :
        /\ up[1] = userId
        /\ permissionKey(Permissions[up[2]].module, Permissions[up[2]].action) = key}

PermissionKeys == {permissionKey(Permissions[i].module, Permissions[i].action) : i \in PermissionIds}

GrantedKeys(d, userId) ==
    {key \in PermissionKeys : GrantedByRole(d, userId, key) \/ DirectGrants(d, userId, key) # {}}

GrantedScope(d, userId, key) ==
    IF GrantedByRole(d, userId, key) \/ \E up \in DirectGrants(d, userId, key) : up[3] = Null
    THEN [all |-> TRUE, ids |-> {}]
    ELSE [all |-> FALSE, ids |-> {up[3] : up \in DirectGrants(d, userId, key)}]

\* C14: whatever order the rows come in, fetchUserPermissions returns the
\* keys (in lower case) granted by a role of the user or directly, and for
\* each key the scope 'all' when a contributing row has no city, the set of
\* the rows' cities otherwise.
FetchedPermissionsAsGranted ==
    \A s \in LookupSlots :
        (lookup[s].pc = "done" /\ lookup[s].served = "query") =>
            /\ lookup[s].payload.set = GrantedKeys(db, lookup[s].userId)
            /\ DOMAIN lookup[s].payload.cityMap = GrantedKeys(db, lookup[s].userId)
            /\ \A key \in GrantedKeys(db, lookup[s].userId) :
                  lookup[s].payload.cityMap[key] = GrantedScope(db, lookup[s].userId, key)

\* A lookup has answered from rows where a role's row of City:View came
\* between two city rows of city:view.
FetchedMixedRows ==
    \E s \in LookupSlots :
        /\ lookup[s].pc = "done"
        /\ lookup[s].served = "query"
        /\ Len(lookup[s].rows) = 3
        /\ lookup[s].rows[1].city_id # Null
        /\ lookup[s].rows[2].city_id = Null
        /\ lookup[s].rows[2].module = "City"
        /\ lookup[s].rows[3].city_id # Null
        /\ lookup[s].rows[3].module = "city"

\* The request in flight came with a token that verified.
Authenticated == http.stage # "none" /\ http.token = "valid"

\* req.cityScope has been attached to the request.
ScopeAttached ==
    /\ Authenticated
    /\ http.route \notin AuthorizedRoutes
    /\ http.stage \in {"require", "handler", "done"}

IsAdminUser(user) == toLowerCase(user.role) = "admin"

HoldsNullCityView(d, userId) ==
    \/ GrantedByRole(d, userId, CITY_PERMISSION_KEY)
    \/ \E up \in DirectGrants(d, userId, CITY_PERMISSION_KEY) : up[3] = Null

\* C12: the scope attached to the request of a user is 'all' exactly when
\* the user is admin or holds a city:view row with no city.
ScopeAllIffAdminOrNullCityView ==
    (ScopeAttached /\ http.user.user_id # Null) =>
        (http.cityScope.all <=>
            (IsAdminUser(http.user) \/ HoldsNullCityView(db, http.user.user_id)))

UserCityAccess(d, userId) == {uca[2] : uca \in {x \in d.user_city_access : x[1] = userId}}

CityQualifiedGrants(d, userId) ==
    {up[3] : up \in {x \in DirectGrants(d, userId, CITY_PERMISSION_KEY) : x[3] # Null}}

\* C13: the cities GET /api/cities returns to a non-admin are among the
\* user's UserCityAccess grants and city-qualified city:view grants.
CitiesLimitedToGrants ==
    (/\ Authenticated
     /\ http.route = "cities"
     /\ http.stage = "done"
     /\ http.status = 200
     /\ ~IsAdminUser(http.user)) =>
        http.rows \subseteq (UserCityAccess(db, http.user.user_id)
                               \cup CityQualifiedGrants(db, http.user.user_id))

\* C17: on a route behind attachCityScope and requireCityScope, a non-admin
\* whose scope is empty is answered 403 without the handler running, and
\* the handler is reached only with scope 'all', with a city in the scope,
\* or by an admin where allowEmptyForAdmin is set.
EmptyScopeIsForbidden ==
    (ScopeAttached /\ http.stage \in {"handler", "done"}) =>
        /\ (~IsAdminUser(http.user) /\ ~http.cityScope.all /\ http.cityScope.ids = {}) =>
              (http.stage = "done" /\ http.status = 403 /\ ~http.handled)
        /\ (http.stage = "handler" \/ http.handled) =>
              \/ http.cityScope.all
              \/ http.cityScope.ids # {}
              \/ AllowEmptyForAdmin(http.route) /\ IsAdminUser(http.user)
        /\ (http.stage = "done" /\ ~http.handled) =>
              (http.status = 403 /\ ~http.cityScope.all /\ http.cityScope.ids = {})

\* A non-admin with an empty scope was refused on POST /attendance.
EmptyScopeRefused ==
    /\ ScopeAttached
    /\ http.route = "attendance"
    /\ http.user.role = "supervisor"
    /\ http.cityScope = EmptyScope
    /\ http.stage = "done"
    /\ http.status = 403
    /\ ~http.handled

\* C18: behind authorize(module, action) the handler is reached by a
\* request whose role is not admin only when the looked up permission set
\* holds the key; a request without user id is answered 401, one without
\* the key 403; the role admin passes without a lookup.
AuthorizeGuardsHandler ==
    (Authenticated /\ http.route \in AuthorizedRoutes /\ http.stage \in {"handler", "done"}) =>
        /\ ((http.stage = "handler" \/ http.handled) /\ http.user.role # "admin") =>
              /\ http.looked
              /\ RequiredKey(http.route) \in lookup[http.slot].payload.set
              /\ RequiredKey(http.route) \in GrantedKeys(db, http.user.user_id)
        /\ http.user.user_id = Null => (http.status = 401 /\ ~http.handled)
        /\ (http.user.user_id # Null /\ http.user.role # "admin" /\ http.stage = "done"
              /\ RequiredKey(http.route) \notin GrantedKeys(db, http.user.user_id)) =>
              (http.status = 403 /\ ~http.handled)
        /\ (http.user.user_id # Null /\ http.user.role = "admin") =>
              (~http.looked /\ (http.stage = "handler" \/ http.handled))

\* A supervisor holding city:view for cities 2 and 5 reached the handler of
\* GET /api/cities and was answered those two.
AuthorizedAfterLookup ==
    /\ Authenticated
    /\ http.route = "cities"
    /\ http.user.role = "supervisor"
    /\ http.looked
    /\ http.handled
    /\ http.rows = {2, 5}

\* C19: a row answered on POST /attendance, /attendance/download or
\* /attendance/short-report to a user whose scope is not 'all' is of a city
\* in the scope.
AttendanceRowsInScope ==
    (/\ ScopeAttached
     /\ http.route \in {"attendance", "download", "short-report"}
     /\ http.stage = "done"
     /\ http.status = 200
     /\ ~http.cityScope.all) =>
        http.rows \subseteq http.cityScope.ids

\* The payload is that of the grants user userId has in the tables d.
PayloadOf(payload, d, userId) ==
    /\ payload.set = GrantedKeys(d, userId)
    /\ DOMAIN payload.cityMap = GrantedKeys(d, userId)
    /\ \A key \in GrantedKeys(d, userId) :
          payload.cityMap[key] = GrantedScope(d, userId, key)

\* C15: a lookup answers with the grants as they were in the tables at or
\* after the last commit an invalidation had followed when the lookup
\* began, whatever other lookups were awaiting their query meanwhile; an
\* entry served from the cache was stored by a lookup of the same version.
LookupsSeeInvalidatedWrites ==
    \A s \in LookupSlots :
        (lookup[s].pc = "done" /\ lookup[s].userId # Null) =>
            /\ lookup[s].readAt >= lookup[s].mustSee
            /\ PayloadOf(lookup[s].payload, history.snaps[lookup[s].readAt + 1],
                         lookup[s].userId)
            /\ lookup[s].served = "cache" => lookup[s].entryVersion = lookup[s].version

\* A lookup that began before a write was invalidated has answered with
\* the grants of before, and a lookup begun after the invalidation with
\* other grants, read after the write.
StaleLookupBeside ==
    \E s, t \in LookupSlots :
        /\ lookup[s].pc = "done"
        /\ lookup[t].pc = "done"
        /\ lookup[t].served = "query"
        /\ lookup[t].version < lookup[s].version
        /\ lookup[t].readAt < lookup[s].mustSee
        /\ lookup[s].userId = lookup[t].userId
        /\ lookup[s].payload # lookup[t].payload
        /\ lookup[t].cacheKey \in DOMAIN permissionCache

\* C16: a request that changed rows of the grant tables answers only after
\* the cache version was bumped, also when it answers 500.
WriteBumpsBeforeResponding ==
    (writer.pc = "done" /\ writer.changed) => cacheVersion > writer.version

StepsOf(grouping) ==
    IF grouping = "supervisor_summary" THEN SupervisorSummarySteps ELSE AttendanceSteps

ScopeExpr == "c.city_id = ANY($)"

\* The value a condition is about, read from the request.
ExpectedParam(expr, grouping, query, cityScope) ==
    IF expr = ScopeExpr THEN IdsParam(cityScope.ids)
    ELSE LET step == CHOOSE st \in {StepsOf(grouping)[i] : i \in DOMAIN StepsOf(grouping)} :
                         st.expr = expr
         IN  IF step.type = "numeric"
             THEN IntParam(IF query[step.field] = "12" THEN 12 ELSE 0)
             ELSE TextParam(IF query[step.field] = " " THEN "" ELSE query[step.field],
                            step.wildcard)

FiltersWith(expr) == {i \in DOMAIN call.filters : call.filters[i].expr = expr}

\* C20: for either builder and every query, a scope that is not 'all' and
\* has ids adds one condition c.city_id = ANY($n) whose parameter is the
\* ids, an empty scope adds 1 = 0 and no parameter, the scope 'all' adds
\* neither; the placeholders number the parameters 1, 2, ... in order and
\* each $k stands where the k-th parameter is the condition's value.
ScopeFilterAndPlaceholders ==
    call.stage = 1 =>
        /\ (call.cityScope.defined /\ ~call.cityScope.all /\ call.cityScope.ids # {}) =>
              /\ Cardinality(FiltersWith(ScopeExpr)) = 1
              /\ FiltersWith("1 = 0") = {}
              /\ \A i \in FiltersWith(ScopeExpr) :
                    /\ i = Len(call.filters)
                    /\ call.filters[i].ph = Len(call.params)
        /\ (call.cityScope.defined /\ ~call.cityScope.all /\ call.cityScope.ids = {}) =>
              /\ FiltersWith(ScopeExpr) = {}
              /\ FiltersWith("1 = 0") = {Len(call.filters)}
        /\ (~call.cityScope.defined \/ call.cityScope.all) =>
              /\ FiltersWith(ScopeExpr) = {}
              /\ FiltersWith("1 = 0") = {}
        /\ \A i \in DOMAIN call.filters :
              call.filters[i].ph # 0 =>
                 /\ call.filters[i].ph \in DOMAIN call.params
                 /\ call.params[call.filters[i].ph] =
                       ExpectedParam(call.filters[i].expr, call.grouping, call.query,
                                     call.cityScope)
        /\ \A k \in DOMAIN call.params :
              Cardinality({i \in DOMAIN call.filters : call.filters[i].ph = k}) = 1
        /\ \A i, j \in DOMAIN call.filters :
              (i < j /\ call.filters[i].ph # 0 /\ call.filters[j].ph # 0) =>
                 call.filters[i].ph < call.filters[j].ph

\* buildAttendanceFilters was called with every parameter given and a scope
\* of two cities: the scope's condition is the last, after conditions with
\* and without placeholders.
ScopedFullQueryBuilt ==
    /\ call.stage = 1
    /\ call.grouping = "detail"
    /\ call.cityScope.ids = {2, 5}
    /\ Len(call.params) = 14
    /\ call.filters[Len(call.filters)].expr = ScopeExpr
    /\ call.filters[Len(call.filters)].ph = 14
    /\ \E i \in DOMAIN call.filters : call.filters[i].flag = "true"

\* The punch times of row i differ before and after the step.
Stamped(i) ==
    \/ attendance'[i].punch_in_time # attendance[i].punch_in_time
    \/ attendance'[i].punch_out_time # attendance[i].punch_out_time

\* C21: in the face-verified punch flow, single and group, whatever the
\* server's configuration, a step stamps a row's punch time only when the
\* pairwise compare of the request's current face has returned a
\* similarity at or above the threshold; and the compare step of an
\* employee with no enrolled reference fails with 412 and leaves the
\* attendance table as it was.
StampedOnlyAfterCompare ==
    [][ /\ (\E i \in RowIds : Stamped(i)) =>
              face.verified /\ face.similarity >= face.threshold
        /\ (face.pc = "verify" /\ face.emp \notin face.enrolled) =>
              /\ attendance' = attendance
              /\ face.mode = "single" => face'.pc = "done" /\ face'.status = 412
              /\ face.mode = "group" =>
                    /\ Len(face'.results) = Len(face.results) + 1
                    /\ face'.results[Len(face'.results)].message =
                          "Employee face enrollment is missing" ]_vars

\* The place of a call in the order identify, verify, upload, update.
EventRank(e) ==
    CASE e = "identify" -> 1 [] e = "verify" -> 2 [] e = "upload" -> 3 [] OTHER -> 4

\* C22: the calls a face-verified punch has made so far are in the order
\* identify, verify, upload, update, and an image has been uploaded only
\* if the verification has succeeded.
IdentifyVerifyUploadUpdate ==
    /\ \A i, j \in 1..Len(face.events) :
          i < j => EventRank(face.events[i]) < EventRank(face.events[j])
    /\ (\E i \in 1..Len(face.events) : face.events[i] = "upload") => face.verified

\* C23: the results of a group request that went through its faces hold
\* one entry per detected face, in detection order with faceIndex 1..n; no
\* two entries of one employee are 'punched'; a face resolved to the
\* employee an earlier face of the frame resolved to is 'duplicate'; and
\* the step that records a 'duplicate' leaves the attendance table as it was.
OneEntryPerFaceDuplicatesSuppressed ==
    [][ /\ (face'.pc = "done" /\ face'.mode = "group" /\ face'.total > 0) =>
              /\ Len(face'.results) = face'.total
              /\ \A i \in 1..Len(face'.results) : face'.results[i].faceIndex = i
              /\ \A i, j \in 1..Len(face'.results) :
                    (i < j /\ face'.results[i].status = "punched"
                           /\ face'.results[j].status = "punched") =>
                        face'.results[i].employeeId # face'.results[j].employeeId
              /\ \A i, j \in 1..Len(face'.results) :
                    (i < j /\ face'.resolved[i] # Null
                           /\ face'.resolved[i] = face'.resolved[j]) =>
                        face'.results[j].status = "duplicate"
        /\ (/\ Len(face'.results) > Len(face.results)
            /\ face'.results[Len(face'.results)].status = "duplicate") =>
              attendance' = attendance ]_vars

\* C24: in group mode, once the loop over the detected faces has begun,
\* every face handled so far has its own entry, whatever failed for it;
\* the loop reaches the last face, and the response is 200 with one entry
\* per face, punched_count the number of 'punched' entries and success
\* true exactly when that number is positive.
GroupBatchNeverAborts ==
    (face.mode = "group" /\ face.total > 0) =>
        /\ \A i \in 1..Len(face.results) : face.results[i].faceIndex = i
        /\ face.pc \in {"crop", "search", "record", "upload", "verify", "update"} =>
              Len(face.results) = face.index - 1
        /\ face.pc \in {"respond", "done"} => Len(face.results) = face.total
        /\ face.pc = "done" =>
              /\ face.status = 200
              /\ face.punched_count = punchedCount(face.results)
              /\ face.success = (face.punched_count > 0)

\* A group response in which a face whose upload or verification threw
\* is followed by a face that was punched.
FailedFaceThenPunchedFace ==
    /\ face.pc = "done" /\ face.mode = "group" /\ face.status = 200
    /\ \E i, j \in 1..Len(face.results) :
          /\ i < j
          /\ face.results[i].status = "error"
          /\ face.results[i].message \in
                {"upload", "Captured face does not match enrolled face",
                 "Employee face enrollment is missing"}
          /\ face.results[j].status = "punched"

\* C25: no step of a request to POST /roles, PUT /roles/:roleId or
\* DELETE /roles/:roleId removes a role whose is_system is true or
\* changes its name, its description or its set of permissions.
SystemRolesUntouched ==
    [][\A r \in rbac.roles :
          r.is_system =>
              /\ r \in rbac'.roles
              /\ {rp \in rbac'.role_permissions : rp[1] = r.id} =
                 {rp \in rbac.role_permissions : rp[1] = r.id}]_vars

\* The user's rows in users, user_roles, user_permissions,
\* user_city_access and user_zone_access.
UserRows(t) ==
    <<t.name, t.role, t.password_hash, t.user_roles, t.user_permissions,
      t.user_city_access, t.user_zone_access>>

\* The user's rows once every change the body asks for is made.
UpdatedRows(t, body) ==
    <<IF body.name # "" THEN body.name ELSE t.name,
      IF body.roles.isArray /\ body.roles.ids # {} THEN "custom" ELSE t.role,
      IF body.password # "" THEN "hashed" ELSE t.password_hash,
      IF body.roles.isArray THEN body.roles.ids ELSE t.user_roles,
      IF body.permissions.isArray THEN body.permissions.ids ELSE t.user_permissions,
      IF body.allowedCities.isArray THEN body.allowedCities.ids ELSE t.user_city_access,
      IF body.allowedZones.isArray THEN body.allowedZones.ids ELSE t.user_zone_access>>

CityAccessOf(ids) == IF ids = {} THEN AssignedCities ELSE ids

\* C30: a fetchUserCityAccess call made after an update of the user's
\* city access has committed does not return the city set of before that
\* update (unless a committed update has made it the user's set again),
\* however the update's transaction and the cached lookups interleave.
NoPreUpdateCityAccess ==
    \A s \in CitySlots :
        LET l == cityCache.lookup[s]
        IN  (l.pc = "done" /\ l.madeAfter >= 2) =>
                \/ l.ids # CityAccessOf(cityCache.committed[l.madeAfter - 1])
                \/ \E m \in l.madeAfter..Len(cityCache.committed) :
                      l.ids = CityAccessOf(cityCache.committed[m])

\* The runs of the schema setup that have neither completed nor failed.
RunsInFlight(s) ==
    {i \in 1..Len(s.runs) : s.runs[i].pc \notin {"fulfilled", "rejected"}}

\* C27: in one process, whatever calls of ensureRbacSchema are made, at
\* most one setup run is in flight; the database changes only in the
\* COMMIT step of a run, which installs everything at once; at most one
\* run completes; and once a run has failed, nothing it did is committed
\* and schemaPromise is empty again, so that the next call starts a run.
SchemaSetupOnce ==
    [][ /\ Cardinality(RunsInFlight(schema')) <= 1
        /\ schema'.completed <= 1
        /\ schema'.installed # schema.installed =>
              /\ schema'.installed = {SchemaStatements[k] : k \in 1..Len(SchemaStatements)}
              /\ schema'.completed = schema.completed + 1
        /\ \A i \in 1..Len(schema.runs) :
              (schema.runs[i].pc # "rejected" /\ schema'.runs[i].pc = "rejected") =>
                  /\ schema'.installed = schema.installed
                  /\ schema'.schemaPromise = Null
        /\ (schema'.calls > schema.calls /\ RunsInFlight(schema) = {}
                /\ schema.completed = 0) =>
              Len(schema'.runs) = Len(schema.runs) + 1 ]_vars

\* A run that failed after its transaction had installed something, and
\* a run that a later call started and that completed.
FailedRunThenCompletedRun ==
    /\ Len(schema.runs) = 2
    /\ schema.runs[1].pc = "rejected" /\ schema.runs[1].done > 0
    /\ schema.runs[2].pc = "fulfilled"
    /\ schema.completed = 1

\* The records a reader is to find: the labels, then every row's values
\* in the order of the headers, null as the empty text.
RenderedRecords ==
    <<[j \in 1..Len(csv.headers) |-> csv.headers[j].label]>>
        \o [i \in 1..Len(csv.rows) |->
               [j \in 1..Len(csv.headers) |->
                   LET value == csv.rows[i][csv.headers[j].key]
                   IN  IF value = NullField THEN << >> ELSE value]]

\* C28: the document buildCsvDocument makes of the rows and the header
\* descriptors, read as RFC-4180 CSV, gives the header labels and then
\* the values of the rows unchanged, null as the empty text, whatever
\* double quotes, commas and line breaks the values hold.
CsvRoundTrip ==
    csv.stage = "parsed" => csv.parsed = RenderedRecords

\* A document read back whose row held a double quote next to a comma in
\* one value and a line break in the other.
ParsedQuotesCommasBreaks ==
    /\ csv.stage = "parsed"
    /\ \E i \in 1..Len(csv.rows) :
          /\ {<<"n">>, <<"w">>} \subseteq DOMAIN csv.rows[i]
          /\ csv.rows[i][<<"n">>] = <<Quote, Comma>>
          /\ csv.rows[i][<<"w">>] = <<CR, LF>>

\* The columns of a row's two directions and of its identity.
InFields(row) == <<row.punch_in_time, row.punch_in_image, row.punched_in_by>>
OutFields(row) == <<row.punch_out_time, row.punch_out_image, row.punched_out_by>>
RowIdentity(row) == <<row.emp_id, row.date, row.ward_id>>

\* C29: in every step of every interleaving of requests, each
\* attendance row stays in the table with its emp_id, date and ward_id, a
\* punch_in_time or punch_out_time that is set stays set, and the step of
\* an IN punch changes no out column of any row, the step of an OUT punch
\* no in column.
AttendanceRowMovesForward ==
    [][ /\ Len(attendance') >= Len(attendance)
        /\ \A i \in 1..Len(attendance) :
              /\ RowIdentity(attendance'[i]) = RowIdentity(attendance[i])
              /\ attendance[i].punch_in_time # Null => attendance'[i].punch_in_time # Null
              /\ attendance[i].punch_out_time # Null => attendance'[i].punch_out_time # Null
              /\ \A p \in Slots :
                    StepOf(p) /\ req[p].pc = "update" =>
                        /\ req[p].punch_type = "IN" =>
                              OutFields(attendance'[i]) = OutFields(attendance[i])
                        /\ req[p].punch_type = "OUT" =>
                              InFields(attendance'[i]) = InFields(attendance[i]) ]_vars

\* A row that an IN punch and then an OUT punch have written.
RowPunchedInAndOut ==
    \E i \in 1..Len(attendance) :
        /\ attendance[i].punch_in_time # Null
        /\ attendance[i].punch_out_time # Null
        /\ attendance[i].punch_in_time < attendance[i].punch_out_time

=============================================================================
